---------------------------- MODULE Spec2Model ----------------------------
(***************************************************************************)
(* A model of the qTest orchestration layer: QTestManager (the status      *)
(* registry, result reporting, bulk reporting, get-or-create of cycles),   *)
(* the QTestAPI lookups it relies on, and the step-log container of        *)
(* QTestRobotLibrary.  The platform is modelled as the state the requests  *)
(* read and write; every request may fail with a transport error.          *)
(***************************************************************************)
EXTENDS Integers, Sequences, FiniteSets, TLC

(***************************************************************************)
(* Bounds of the model.                                                    *)
(***************************************************************************)
MaxCalls == 3
MaxItems == 2
MaxThreads == 2
MaxCycleCalls == 3
MaxRuns == 2
PageSize == 2
MaxAppends == 3

(***************************************************************************)
(* Python values.  A str is a sequence of characters; None, an absent dict *)
(* key and an omitted argument are tagged values.                          *)
(***************************************************************************)
None == [tag |-> "None"]
Absent == [tag |-> "absent"]
V(x) == [tag |-> "val", v |-> x]
IsVal(o) == o.tag = "val"

LowerLetters ==
    <<"a", "b", "c", "d", "e", "f", "g", "h", "i", "j", "k", "l", "m",
      "n", "o", "p", "q", "r", "s", "t", "u", "v", "w", "x", "y", "z">>
UpperLetters ==
    <<"A", "B", "C", "D", "E", "F", "G", "H", "I", "J", "K", "L", "M",
      "N", "O", "P", "Q", "R", "S", "T", "U", "V", "W", "X", "Y", "Z">>

UpperChar(c) ==
    IF \E i \in DOMAIN LowerLetters : LowerLetters[i] = c
    THEN UpperLetters[CHOOSE i \in DOMAIN LowerLetters : LowerLetters[i] = c]
    ELSE c

LowerChar(c) ==
    IF \E i \in DOMAIN UpperLetters : UpperLetters[i] = c
    THEN LowerLetters[CHOOSE i \in DOMAIN UpperLetters : UpperLetters[i] = c]
    ELSE c

\* str.upper()
Upper(s) == [i \in 1..Len(s) |-> UpperChar(s[i])]

\* str.lower()
Lower(s) == [i \in 1..Len(s) |-> LowerChar(s[i])]

RECURSIVE LStrip(_)
LStrip(s) == IF s # <<>> /\ Head(s) = " " THEN LStrip(Tail(s)) ELSE s

RECURSIVE RStrip(_)
RStrip(s) ==
    IF s # <<>> /\ s[Len(s)] = " " THEN RStrip(SubSeq(s, 1, Len(s) - 1)) ELSE s

\* str.strip()
Strip(s) == RStrip(LStrip(s))

MaxOf(S) == CHOOSE x \in S : \A y \in S : y <= x

(***************************************************************************)
(* The state.                                                              *)
(***************************************************************************)
VARIABLES
    platStatuses,        \* the platform: what GET test-runs/execution-statuses answers
    logs,                \* the platform: the test logs created, in creation order
    execution_statuses,  \* QTestManager._execution_statuses
    nFetch,              \* execution-statuses requests issued so far
    nAddLog,             \* add-test-log requests issued so far
    nCalls,              \* top-level calls begun so far
    last,                \* the call that ended last, while no call is running
    pc,                  \* "idle", or "bulk" inside bulk_update_test_results' loop
    bulk,                \* the running bulk call: run, items, position, results
    threads,             \* concurrent callers of get_execution_statuses
    cycles,              \* the platform: the test cycles GET test-cycles answers
    nCreateCycle,        \* create-cycle requests issued by the manager
    cycleCalls,          \* the get_or_create_test_cycle_id_by_name calls that returned
    callers,             \* concurrent callers of get_or_create_test_cycle_id_by_name
    runs,                \* the platform: the test runs, in creation order
    lastRunCall,         \* the ensure_test_run_for_case call that ended last, and the one before
    cases,               \* the platform: the project's test cases, in listing order
    lastLookup,          \* the get_test_case_id_by_name call that ended last, and the one before
    lastCreateRun,       \* the create_test_run call that ended last
    collection,          \* a step-log collection a caller builds with append_qtest_test_step_log
    lastApprove,         \* the approve_qtest_test_case call that ended last
    lastStepLookup,      \* the find_test_step_id_by_order call that ended last
    listing,             \* a running or ended list_test_cases call
    lastByName,          \* the *_by_name(s) manager call that ended last
    issued               \* the kinds of request the manager's operations have issued

vars == <<platStatuses, logs, execution_statuses, nFetch, nAddLog, nCalls, last,
          pc, bulk, threads, cycles, nCreateCycle, cycleCalls, callers,
          runs, lastRunCall, cases, lastLookup, lastCreateRun, collection,
          lastApprove, lastStepLookup, listing, lastByName, issued>>

reportVars == <<platStatuses, logs, execution_statuses, nFetch, nAddLog, nCalls,
                last, pc, bulk>>
cycleVars == <<cycles, nCreateCycle, cycleCalls>>
\* The variables of the specifications further down, which the reporting calls,
\* the status threads and the sequential cycle calls leave alone.
runVars == <<runs, lastRunCall>>
caseVars == <<cases, lastLookup>>
facadeVars == <<lastApprove, lastStepLookup, listing, lastByName, issued>>
laterVars == <<callers, runVars, caseVars, lastCreateRun, collection, facadeVars>>

(***************************************************************************)
(* Status names and the lists the platform may serve.                      *)
(***************************************************************************)
NamePassed == <<"A", "a">>
NameFailed == <<"B", "b">>
NamePassedAlt == <<"a", "A">>

StatusListOne == <<[id |-> 1, name |-> NamePassed]>>
StatusListDup ==
    <<[id |-> 1, name |-> NamePassed], [id |-> 2, name |-> NameFailed],
      [id |-> 5, name |-> NamePassedAlt]>>

PlatStatusLists == {StatusListOne, StatusListDup}

\* The status argument of a caller.
StatusInputs == {<<"a", "a">>, <<"c", "c">>}

(***************************************************************************)
(* QTestManager.get_execution_statuses                                     *)
(***************************************************************************)
NoCache == [isNone |-> TRUE, map |-> <<>>]
Cached(m) == [isNone |-> FALSE, map |-> m]

\* {status['name'].upper(): status['id'] for status in statuses}: a later entry
\* overwrites an earlier one with the same key.
BuildMapping(statuses) ==
    LET keys == {Upper(statuses[i].name) : i \in DOMAIN statuses}
    IN  [k \in keys |->
            statuses[MaxOf({i \in DOMAIN statuses : Upper(statuses[i].name) = k})].id]

NeedsFetchAlways(cache) == TRUE

\* if self._execution_statuses is None
NeedsFetch(cache) == cache.isNone

\* One call: the cache after it, the requests it issued, whether it raised.
GetExecutionStatuses(cache, plat, fetchOk) ==
    IF NeedsFetch(cache)
    THEN IF fetchOk
         THEN [raised |-> FALSE, cache |-> Cached(BuildMapping(plat)), fetches |-> 1]
         ELSE [raised |-> TRUE, cache |-> cache, fetches |-> 1]
    ELSE [raised |-> FALSE, cache |-> cache, fetches |-> 0]

\* What the registry holds, or would hold on its first read.
RegistryView(cache, plat) == IF cache.isNone THEN BuildMapping(plat) ELSE cache.map

(***************************************************************************)
(* Step-log collections: QTestRobotLibrary.append_qtest_test_step_log      *)
(***************************************************************************)
Omitted == [tag |-> "omitted"]
EmptyStr == [tag |-> "str", v |-> ""]
ListOf(items) == [tag |-> "list", items |-> items]
DictOf(logsEntry) == [tag |-> "dict", logs |-> logsEntry]
NotAList == [tag |-> "notlist"]

StepPassed ==
    [status |-> [id |-> 601, name |-> <<"P", "A", "S", "S", "E", "D">>],
     actual_result |-> "ok"]
StepFailed ==
    [status |-> [id |-> 602, name |-> <<"F", "A", "I", "L", "E", "D">>],
     actual_result |-> "bad"]

Raise(exc, info) == [kind |-> "raise", exc |-> exc, info |-> info]
Return(value) == [kind |-> "return", value |-> value]

\* The container handling of append_qtest_test_step_log, after the step is built.
AppendToContainer(container, step) ==
    IF container = None \/ container = EmptyStr
    THEN Return(ListOf(<<step>>))
    ELSE IF container.tag = "list"
    THEN Return(ListOf(Append(container.items, step)))
    ELSE IF container.tag = "dict"
    THEN IF container.logs = Absent \/ container.logs = None
         THEN Return(DictOf(V(<<step>>)))
         ELSE IF ~IsVal(container.logs)
         THEN Raise("ValueError", "Expected 'logs' key in dict to be a list")
         ELSE Return(DictOf(V(Append(container.logs.v, step))))
    ELSE Raise("ValueError", "Container must be a list, a dict or empty")

\* The ordered step list a collection holds.
StepList(container) ==
    IF container.tag = "list" THEN container.items
    ELSE IF container.tag = "dict" /\ IsVal(container.logs) THEN container.logs.v
    ELSE <<>>

ListOne == AppendToContainer(None, StepPassed).value
ListTwo == AppendToContainer(ListOne, StepFailed).value
DictOne == AppendToContainer(DictOf(Absent), StepPassed).value
DictTwo == AppendToContainer(DictOne, StepFailed).value

\* The steplogs argument of a caller of update_test_result.
StepLogInputs == {Omitted, None, ListTwo, DictTwo}

(***************************************************************************)
(* QTestManager.update_test_result                                         *)
(***************************************************************************)
\* steplogs['logs'] (line 208)
SubscriptLogs(steplogs) ==
    IF steplogs.tag = "dict"
    THEN IF steplogs.logs = Absent
         THEN Raise("KeyError", "logs")
         ELSE Return(IF IsVal(steplogs.logs) THEN steplogs.logs.v ELSE steplogs.logs)
    ELSE Raise("TypeError", "steplogs is not subscriptable by 'logs'")

TruthyStr(o) == IsVal(o) /\ o.v # ""
TruthyInt(o) == IsVal(o) /\ o.v # 0
TruthySeq(o) == IsVal(o) /\ o.v # <<>>

\* The log a manager without the version argument would build: the version
\* is always the test case ID.
TestLogDataOfCaseId(args, statusId, statusUpper, stepLogs) ==
    [status |-> [id |-> statusId, name |-> statusUpper],
     test_case_version_id |-> args.test_case_id,
     note |-> IF TruthyStr(args.note) THEN args.note ELSE Absent,
     exe_time |-> IF TruthyInt(args.execution_time) THEN args.execution_time ELSE Absent,
     defects |->
        IF TruthySeq(args.defects)
        THEN V([i \in 1..Len(args.defects.v) |-> [id |-> args.defects.v[i]]])
        ELSE Absent,
     exe_start_date |-> IF TruthyStr(args.exe_start_date) THEN args.exe_start_date ELSE Absent,
     exe_end_date |-> IF TruthyStr(args.exe_end_date) THEN args.exe_end_date ELSE Absent,
     test_step_logs |-> stepLogs]

\* test_log_data (lines 188-208)
TestLogData(args, statusId, statusUpper, stepLogs) ==
    [status |-> [id |-> statusId, name |-> statusUpper],
     test_case_version_id |->
        IF args.test_case_version_id # None
        THEN args.test_case_version_id.v ELSE args.test_case_id,
     note |-> IF TruthyStr(args.note) THEN args.note ELSE Absent,
     exe_time |-> IF TruthyInt(args.execution_time) THEN args.execution_time ELSE Absent,
     defects |->
        IF TruthySeq(args.defects)
        THEN V([i \in 1..Len(args.defects.v) |-> [id |-> args.defects.v[i]]])
        ELSE Absent,
     exe_start_date |-> IF TruthyStr(args.exe_start_date) THEN args.exe_start_date ELSE Absent,
     exe_end_date |-> IF TruthyStr(args.exe_end_date) THEN args.exe_end_date ELSE Absent,
     test_step_logs |-> stepLogs]

\* QTestAPI.add_test_log as the platform answers it: the created log.
CreatedLog(logSeq, runId, data) == [id |-> 200 + Len(logSeq) + 1, run |-> runId, body |-> data]

CallResult(outcome, cache, logSeq, fetches, posts, failed) ==
    [outcome |-> outcome, cache |-> cache, logs |-> logSeq,
     fetches |-> fetches, posts |-> posts, failed |-> failed]

\* One call of update_test_result.  fetchOk and postOk say whether the
\* execution-statuses request and the add-test-log request, if issued, succeed.
UpdateTestResult(cache, plat, logSeq, args, fetchOk, postOk) ==
    IF args.steplogs = Omitted
    THEN CallResult(Raise("TypeError", "missing required argument 'steplogs'"),
                    cache, logSeq, 0, 0, 0)
    ELSE
    LET g == GetExecutionStatuses(cache, plat, fetchOk)
        statusUpper == Upper(args.status)
    IN  IF g.raised
        THEN CallResult(Raise("TransportError", "execution-statuses"),
                        g.cache, logSeq, g.fetches, 0, 1)
        ELSE IF statusUpper \notin DOMAIN g.cache.map
        THEN CallResult(Raise("ValueError", [invalid |-> args.status,
                                             available |-> DOMAIN g.cache.map]),
                        g.cache, logSeq, g.fetches, 0, 0)
        ELSE
        LET sub == SubscriptLogs(args.steplogs)
            data == TestLogData(args, g.cache.map[statusUpper], statusUpper, sub.value)
            created == CreatedLog(logSeq, args.test_run_id, data)
        IN  IF sub.kind = "raise"
            THEN CallResult(sub, g.cache, logSeq, g.fetches, 0, 0)
            ELSE IF postOk
            THEN CallResult(Return(created), g.cache, Append(logSeq, created),
                            g.fetches, 1, 0)
            ELSE CallResult(Raise("TransportError", "add-test-log"),
                            g.cache, logSeq, g.fetches, 1, 1)

(***************************************************************************)
(* QTestManager.bulk_update_test_results                                   *)
(***************************************************************************)
\* item[key]
Subscript(item, key) ==
    IF item[key] = Absent THEN Raise("KeyError", key) ELSE Return(item[key].v)

\* item.get(key)
Get(item, key) == IF item[key] = Absent THEN None ELSE item[key]

\* The body of the try (lines 236-244): the arguments are evaluated in order,
\* then update_test_result is called; it is never given steplogs.
BulkTry(cache, plat, logSeq, runId, item, fetchOk, postOk) ==
    LET cid == Subscript(item, "test_case_id")
        st == Subscript(item, "status")
    IN  IF cid.kind = "raise" THEN CallResult(cid, cache, logSeq, 0, 0, 0)
        ELSE IF st.kind = "raise" THEN CallResult(st, cache, logSeq, 0, 0, 0)
        ELSE UpdateTestResult(cache, plat, logSeq,
                [test_run_id |-> runId, test_case_id |-> cid.value,
                 status |-> st.value, steplogs |-> Omitted,
                 test_case_version_id |-> None, note |-> Get(item, "note"),
                 execution_time |-> Get(item, "execution_time"),
                 defects |-> Get(item, "defects"),
                 exe_start_date |-> None, exe_end_date |-> None],
                fetchOk, postOk)

BulkExceptDropping(results, item, exc) ==
    LET cid == Subscript(item, "test_case_id")
    IN  IF cid.kind = "raise" THEN [aborted |-> TRUE, exc |-> cid, results |-> results]
        ELSE [aborted |-> FALSE, exc |-> exc, results |-> results]

\* The except clause (lines 245-247): both of its statements read
\* test_result['test_case_id'].
BulkExcept(results, item, exc) ==
    LET cid == Subscript(item, "test_case_id")
    IN  IF cid.kind = "raise" THEN [aborted |-> TRUE, exc |-> cid, results |-> results]
        ELSE [aborted |-> FALSE, exc |-> exc,
              results |-> Append(results, [error |-> exc, test_case_id |-> cid.value])]

(***************************************************************************)
(* The inputs of the reporting calls.                                      *)
(***************************************************************************)
ArgsOf(caseId, status, steplogs, version, note, time, defects) ==
    [test_run_id |-> 100, test_case_id |-> caseId, status |-> status,
     steplogs |-> steplogs, test_case_version_id |-> version, note |-> note,
     execution_time |-> time, defects |-> defects,
     exe_start_date |-> None, exe_end_date |-> None]

UpdateArgs ==
    {ArgsOf(10, s, sl, None, None, None, None) : s \in StatusInputs, sl \in StepLogInputs}
    \cup {ArgsOf(11, <<"a", "a">>, DictOne, V(77), V("note"), V(0), V(<<>>)),
          ArgsOf(11, <<"B", "B">>, DictTwo, None, V(""), V(30), V(<<"D1">>))}

ItemOf(caseId, status, note) ==
    [test_case_id |-> caseId, status |-> status, note |-> note,
     execution_time |-> Absent, defects |-> Absent]

BulkItems ==
    {ItemOf(V(10), V(<<"a", "a">>), V("Test 1 passed")),
     ItemOf(V(11), V(<<"B", "b">>), Absent),
     ItemOf(V(12), V(<<"c", "c">>), Absent),
     ItemOf(Absent, V(<<"a", "a">>), Absent)}

RECURSIVE SeqsUpTo(_, _)
SeqsUpTo(S, n) ==
    IF n = 0 THEN {<<>>}
    ELSE LET shorter == SeqsUpTo(S, n - 1)
         IN  shorter \cup {Append(q, x) : q \in shorter, x \in S}

NoCall == [op |-> "none"]
NoBulk == [run |-> 0, items |-> <<>>, idx |-> 0, results |-> <<>>,
           fetches |-> 0, posts |-> 0, failed |-> 0, registry |-> <<>>]

Ended(op, args, r, registry) ==
    [op |-> op, args |-> args, outcome |-> r.outcome, fetches |-> r.fetches,
     posts |-> r.posts, failed |-> r.failed, registry |-> registry]

(***************************************************************************)
(* Initial state: a fresh manager (__init__, line 47) and a platform with  *)
(* no test logs and no cycles.                                             *)
(***************************************************************************)
\* No caller has begun a step-log collection.
NotStarted ==
    [start |-> Omitted, container |-> Omitted, appended |-> <<>>, outcome |-> "none",
     requests |-> 0, exc |-> "", malformed |-> FALSE]

\* No get_test_case_id_by_name call has ended since the project last changed.
NoLookup == [op |-> "none"]

\* No ensure_test_run_for_case call has ended yet.
NoRunCall == [op |-> "none"]

\* A caller of get_or_create_test_cycle_id_by_name that has not begun.
NotCalling == [pc |-> "start", name |-> <<>>, found |-> None, listOk |-> FALSE, ret |-> None]

NotListing == [pc |-> "idle"]

Init ==
    /\ platStatuses \in PlatStatusLists
    /\ logs = <<>>
    /\ execution_statuses = NoCache
    /\ nFetch = 0
    /\ nAddLog = 0
    /\ nCalls = 0
    /\ last = NoCall
    /\ pc = "idle"
    /\ bulk = NoBulk
    /\ threads = [t \in 1..MaxThreads |-> [pc |-> "start", fetched |-> <<>>, ret |-> <<>>]]
    /\ cycles = <<>>
    /\ nCreateCycle = 0
    /\ cycleCalls = <<>>
    /\ callers = [t \in 1..MaxThreads |-> NotCalling]
    /\ runs = <<>>
    /\ lastRunCall = NoRunCall
    /\ cases = <<>>
    /\ lastLookup = NoLookup
    /\ lastCreateRun = NoCall
    /\ collection = NotStarted
    /\ lastApprove = NoCall
    /\ lastStepLookup = NoCall
    /\ listing = NotListing
    /\ lastByName = NoCall
    /\ issued = {}

(***************************************************************************)
(* The reporting calls, one caller at a time.                              *)
(***************************************************************************)
CanCall == pc = "idle" /\ nCalls < MaxCalls

GetExecutionStatusesCall ==
    /\ CanCall
    /\ \E fetchOk \in BOOLEAN :
        LET g == GetExecutionStatuses(execution_statuses, platStatuses, fetchOk)
            r == CallResult(IF g.raised THEN Raise("TransportError", "execution-statuses")
                            ELSE Return(g.cache.map),
                            g.cache, logs, g.fetches, 0, IF g.raised THEN 1 ELSE 0)
        IN  /\ execution_statuses' = g.cache
            /\ nFetch' = nFetch + g.fetches
            /\ last' = Ended("get_execution_statuses", None, r,
                             RegistryView(execution_statuses, platStatuses))
    /\ nCalls' = nCalls + 1
    /\ UNCHANGED <<platStatuses, logs, nAddLog, pc, bulk, threads, cycleVars, laterVars>>

\* get_available_statuses (line 309): list(self.get_execution_statuses().keys())
GetAvailableStatusesCall ==
    /\ CanCall
    /\ \E fetchOk \in BOOLEAN :
        LET g == GetExecutionStatuses(execution_statuses, platStatuses, fetchOk)
            r == CallResult(IF g.raised THEN Raise("TransportError", "execution-statuses")
                            ELSE Return(DOMAIN g.cache.map),
                            g.cache, logs, g.fetches, 0, IF g.raised THEN 1 ELSE 0)
        IN  /\ execution_statuses' = g.cache
            /\ nFetch' = nFetch + g.fetches
            /\ last' = Ended("get_available_statuses", None, r,
                             RegistryView(execution_statuses, platStatuses))
    /\ nCalls' = nCalls + 1
    /\ UNCHANGED <<platStatuses, logs, nAddLog, pc, bulk, threads, cycleVars, laterVars>>

UpdateTestResultCall ==
    /\ CanCall
    /\ \E args \in UpdateArgs, fetchOk \in BOOLEAN, postOk \in BOOLEAN :
        LET r == UpdateTestResult(execution_statuses, platStatuses, logs, args,
                                  fetchOk, postOk)
        IN  /\ execution_statuses' = r.cache
            /\ logs' = r.logs
            /\ nFetch' = nFetch + r.fetches
            /\ nAddLog' = nAddLog + r.posts
            /\ last' = Ended("update_test_result", args, r,
                             RegistryView(execution_statuses, platStatuses))
    /\ nCalls' = nCalls + 1
    /\ UNCHANGED <<platStatuses, pc, bulk, threads, cycleVars, laterVars>>

\* bulk_update_test_results up to the loop (lines 231-233)
BulkStart ==
    /\ CanCall
    /\ \E items \in SeqsUpTo(BulkItems, MaxItems) :
        bulk' = [run |-> 100, items |-> items, idx |-> 1, results |-> <<>>,
                 fetches |-> 0, posts |-> 0, failed |-> 0,
                 registry |-> RegistryView(execution_statuses, platStatuses)]
    /\ pc' = "bulk"
    /\ last' = NoCall
    /\ nCalls' = nCalls + 1
    /\ UNCHANGED <<platStatuses, logs, execution_statuses, nFetch, nAddLog,
                   threads, cycleVars, laterVars>>

\* One iteration of the loop (lines 234-247)
BulkItem ==
    /\ pc = "bulk"
    /\ bulk.idx <= Len(bulk.items)
    /\ \E fetchOk \in BOOLEAN, postOk \in BOOLEAN :
        LET item == bulk.items[bulk.idx]
            r == BulkTry(execution_statuses, platStatuses, logs, bulk.run, item,
                         fetchOk, postOk)
            h == BulkExcept(bulk.results, item, r.outcome)
            b == [bulk EXCEPT !.idx = @ + 1, !.fetches = @ + r.fetches,
                              !.posts = @ + r.posts, !.failed = @ + r.failed]
        IN  /\ execution_statuses' = r.cache
            /\ logs' = r.logs
            /\ nFetch' = nFetch + r.fetches
            /\ nAddLog' = nAddLog + r.posts
            /\ IF r.outcome.kind = "return"
               THEN /\ bulk' = [b EXCEPT !.results = Append(@, r.outcome.value)]
                    /\ UNCHANGED <<pc, last>>
               ELSE IF h.aborted
               THEN /\ bulk' = NoBulk
                    /\ pc' = "idle"
                    /\ last' = [op |-> "bulk_update_test_results",
                                args |-> [run |-> bulk.run, items |-> bulk.items],
                                outcome |-> h.exc, fetches |-> b.fetches,
                                posts |-> b.posts, failed |-> b.failed,
                                registry |-> bulk.registry]
               ELSE /\ bulk' = [b EXCEPT !.results = h.results]
                    /\ UNCHANGED <<pc, last>>
    /\ UNCHANGED <<platStatuses, nCalls, threads, cycleVars, laterVars>>

\* After the loop (lines 249-250)
BulkReturn ==
    /\ pc = "bulk"
    /\ bulk.idx > Len(bulk.items)
    /\ last' = [op |-> "bulk_update_test_results",
                args |-> [run |-> bulk.run, items |-> bulk.items],
                outcome |-> Return(bulk.results), fetches |-> bulk.fetches,
                posts |-> bulk.posts, failed |-> bulk.failed,
                registry |-> bulk.registry]
    /\ bulk' = NoBulk
    /\ pc' = "idle"
    /\ UNCHANGED <<platStatuses, logs, execution_statuses, nFetch, nAddLog, nCalls,
                   threads, cycleVars, laterVars>>

\* The platform's administrators change the execution statuses.
PlatformChangeStatuses ==
    /\ \E l \in PlatStatusLists \ {platStatuses} : platStatuses' = l
    /\ UNCHANGED <<logs, execution_statuses, nFetch, nAddLog, nCalls, last, pc, bulk,
                   threads, cycleVars, laterVars>>

Next ==
    \/ GetExecutionStatusesCall
    \/ GetAvailableStatusesCall
    \/ UpdateTestResultCall
    \/ BulkStart
    \/ BulkItem
    \/ BulkReturn
    \/ PlatformChangeStatuses

Spec == Init /\ [][Next]_vars

(***************************************************************************)
(* get_execution_statuses called by several threads on one manager.  The   *)
(* method takes no lock: the test of the cache (line 73), the request      *)
(* (line 74), the assignment (lines 75-78) and the read that is returned   *)
(* (line 79) are separate steps of a thread.                               *)
(***************************************************************************)
ThreadIds == 1..MaxThreads

\* line 73
RaceCheck(t) ==
    /\ threads[t].pc = "start"
    /\ threads' = [threads EXCEPT ![t].pc =
                      IF NeedsFetch(execution_statuses) THEN "fetch" ELSE "return"]
    /\ UNCHANGED <<reportVars, cycleVars, laterVars>>

\* line 74
RaceFetch(t) ==
    /\ threads[t].pc = "fetch"
    /\ nFetch' = nFetch + 1
    /\ \E fetchOk \in BOOLEAN :
        threads' = [threads EXCEPT ![t] =
                       IF fetchOk THEN [@ EXCEPT !.pc = "store", !.fetched = platStatuses]
                       ELSE [@ EXCEPT !.pc = "raised"]]
    /\ UNCHANGED <<platStatuses, logs, execution_statuses, nAddLog, nCalls, last, pc,
                   bulk, cycleVars, laterVars>>

\* lines 75-78
RaceStore(t) ==
    /\ threads[t].pc = "store"
    /\ execution_statuses' = Cached(BuildMapping(threads[t].fetched))
    /\ threads' = [threads EXCEPT ![t].pc = "return"]
    /\ UNCHANGED <<platStatuses, logs, nFetch, nAddLog, nCalls, last, pc, bulk,
                   cycleVars, laterVars>>

\* line 79
RaceReturn(t) ==
    /\ threads[t].pc = "return"
    /\ threads' = [threads EXCEPT ![t] =
                      [@ EXCEPT !.pc = "done", !.ret = execution_statuses.map]]
    /\ UNCHANGED <<reportVars, cycleVars, laterVars>>

NextRace ==
    \/ \E t \in ThreadIds : RaceCheck(t)
    \/ \E t \in ThreadIds : RaceFetch(t)
    \/ \E t \in ThreadIds : RaceStore(t)
    \/ \E t \in ThreadIds : RaceReturn(t)
    \/ PlatformChangeStatuses

SpecRace == Init /\ [][NextRace]_vars

(***************************************************************************)
(* Test cycles: QTestAPI.find_test_cycle_id_by_name and                    *)
(* QTestManager.get_or_create_test_cycle_id_by_name                        *)
(***************************************************************************)
DigitOf(n) == CASE n = 1 -> "1" [] n = 2 -> "2" [] n = 3 -> "3" [] n = 4 -> "4"
                [] OTHER -> "9"

\* The platform numbers a new cycle and gives it the pid "C<n>".
NewCycle(cycleSeq, name) ==
    [id |-> Len(cycleSeq) + 1, name |-> name, pid |-> <<"C", DigitOf(Len(cycleSeq) + 1)>>]

\* The name argument of a caller.
CycleNames == {<<"a", "b">>, <<" ", "A", "b">>, <<"c", "2">>}

CycleMatches(cy, name) ==
    LET target == Lower(Strip(name))
        cy_name == Lower(Strip(cy.name))
        cy_pid == Lower(Strip(cy.pid))
    IN  cy_name = target \/ (cy_pid # <<>> /\ cy_pid = target)

MinOf(S) == CHOOSE x \in S : \A y \in S : x <= y

\* The IDs of the cycles on the platform that match the name.
MatchingCycleIds(cycleSeq, name) ==
    {cycleSeq[i].id : i \in {j \in DOMAIN cycleSeq : CycleMatches(cycleSeq[j], name)}}

\* find_test_cycle_id_by_name: the first match in listing order; any exception,
\* the failed listing request included, is logged and answered with None.
FindTestCycleIdByName(cycleSeq, name, listOk) ==
    LET hits == {i \in DOMAIN cycleSeq : CycleMatches(cycleSeq[i], name)}
    IN  IF ~listOk THEN Return(None)
        ELSE IF hits = {} THEN Return(None)
        ELSE Return(V(cycleSeq[MinOf(hits)].id))

\* get_or_create_test_cycle_id_by_name: the outcome, the cycles after it and
\* the create-cycle requests it issued.
GetOrCreateTestCycleIdByName(cycleSeq, name, listOk, createOk) ==
    LET found == FindTestCycleIdByName(cycleSeq, name, listOk)
        created == NewCycle(cycleSeq, name)
    IN  IF found.kind = "raise"
        THEN [outcome |-> found, cycles |-> cycleSeq, creates |-> 0]
        ELSE IF found.value # None
        THEN [outcome |-> Return(found.value.v), cycles |-> cycleSeq, creates |-> 0]
        ELSE IF createOk
        THEN [outcome |-> Return(created.id), cycles |-> Append(cycleSeq, created),
              creates |-> 1]
        ELSE [outcome |-> Raise("TransportError", "create-cycle"), cycles |-> cycleSeq,
              creates |-> 1]

GetOrCreateCycleCall ==
    /\ Len(cycleCalls) < MaxCycleCalls
    /\ \E name \in CycleNames, listOk \in BOOLEAN, createOk \in BOOLEAN :
        LET r == GetOrCreateTestCycleIdByName(cycles, name, listOk, createOk)
        IN  /\ cycles' = r.cycles
            /\ nCreateCycle' = nCreateCycle + r.creates
            /\ cycleCalls' = Append(cycleCalls,
                    [op |-> "get_or_create", name |-> name, outcome |-> r.outcome,
                     creates |-> r.creates, listOk |-> listOk,
                     matching |-> MatchingCycleIds(cycles, name)])
    /\ UNCHANGED <<reportVars, threads, laterVars>>

\* Another party creates a cycle on the platform.
ExternalCreateCycle ==
    /\ Len(cycleCalls) < MaxCycleCalls
    /\ \E name \in CycleNames :
        /\ cycles' = Append(cycles, NewCycle(cycles, name))
        /\ cycleCalls' = Append(cycleCalls,
                [op |-> "external", name |-> name, outcome |-> Return(Len(cycles) + 1),
                 creates |-> 0, listOk |-> TRUE,
                 matching |-> MatchingCycleIds(cycles, name)])
    /\ UNCHANGED <<reportVars, threads, laterVars, nCreateCycle>>

NextCycle ==
    \/ GetOrCreateCycleCall
    \/ ExternalCreateCycle

SpecCycle == Init /\ [][NextCycle]_vars

(***************************************************************************)
(* get_or_create_test_cycle_id_by_name called by several callers at once.  *)
(* The method holds no lock and the platform has no create-if-absent       *)
(* request: the lookup (line 19) and the creation (line 23) are separate   *)
(* requests, and other callers' requests may come between them.            *)
(***************************************************************************)
\* A create step that looks again and reuses a cycle that has appeared since.
CreateTestCycleStepIfAbsent(cycleSeq, name, createOk) ==
    LET ids == MatchingCycleIds(cycleSeq, name)
        created == NewCycle(cycleSeq, name)
    IN  IF ids # {}
        THEN [outcome |-> Return(MinOf(ids)), cycles |-> cycleSeq, creates |-> 0]
        ELSE IF createOk
        THEN [outcome |-> Return(created.id), cycles |-> Append(cycleSeq, created),
              creates |-> 1]
        ELSE [outcome |-> Raise("TransportError", "create-cycle"), cycles |-> cycleSeq,
              creates |-> 1]

\* lines 23-24: create_test_cycle, then created.get('id')
CreateTestCycleStep(cycleSeq, name, createOk) ==
    LET created == NewCycle(cycleSeq, name)
    IN  IF createOk
        THEN [outcome |-> Return(created.id), cycles |-> Append(cycleSeq, created),
              creates |-> 1]
        ELSE [outcome |-> Raise("TransportError", "create-cycle"), cycles |-> cycleSeq,
              creates |-> 1]

\* lines 19-21: the lookup and the early return
CallerLookup(t) ==
    /\ callers[t].pc = "start"
    /\ \E name \in CycleNames, listOk \in BOOLEAN :
        LET found == FindTestCycleIdByName(cycles, name, listOk)
        IN  callers' = [callers EXCEPT ![t] =
                [pc |-> IF found.value # None THEN "done" ELSE "create",
                 name |-> name, found |-> found.value, listOk |-> listOk,
                 ret |-> IF found.value # None THEN found.value ELSE None]]
    /\ UNCHANGED <<reportVars, threads, cycleVars, runVars, caseVars, lastCreateRun, collection, facadeVars>>

\* lines 23-24
CallerCreate(t) ==
    /\ callers[t].pc = "create"
    /\ \E createOk \in BOOLEAN :
        LET r == CreateTestCycleStep(cycles, callers[t].name, createOk)
        IN  /\ cycles' = r.cycles
            /\ nCreateCycle' = nCreateCycle + r.creates
            /\ callers' = [callers EXCEPT ![t] =
                    IF r.outcome.kind = "return"
                    THEN [@ EXCEPT !.pc = "done", !.ret = V(r.outcome.value)]
                    ELSE [@ EXCEPT !.pc = "raised"]]
    /\ UNCHANGED <<reportVars, threads, cycleCalls, runVars, caseVars, lastCreateRun, collection, facadeVars>>

NextCycleRace ==
    \/ \E t \in ThreadIds : CallerLookup(t)
    \/ \E t \in ThreadIds : CallerCreate(t)

SpecCycleRace == Init /\ [][NextCycleRace]_vars

(***************************************************************************)
(* Test runs: QTestAPI.find_test_run_id_by_test_case,                      *)
(* QTestAPI.create_test_run_for_case and                                   *)
(* QTestManager.ensure_test_run_for_case                                   *)
(***************************************************************************)
\* A Python int and a Python str, as callers may pass either for an ID.
PyInt(n) == [tag |-> "int", v |-> n]
PyStr(chars) == [tag |-> "str", v |-> chars]

Digit(d) == <<"0", "1", "2", "3", "4", "5", "6", "7", "8", "9">>[d + 1]

\* str(x) of an int below 100, of a str and of None
StrOf(x) ==
    CASE x.tag = "int" ->
            IF x.v < 10 THEN <<Digit(x.v)>>
            ELSE <<Digit(x.v \div 10), Digit(x.v % 10)>>
      [] x.tag = "str" -> x.v
      [] OTHER -> <<"N", "o", "n", "e">>

\* The parents and the test_case_id arguments of the calls.
RunParents == {<<50, "test-suite">>, <<50, "test-cycle">>}
CallParents == {<<50, "test-suite">>}
RunCaseIds == {PyInt(10), PyStr(<<"1", "0">>)}
\* The cases other parties bind runs to; None is a run without a test case.
OtherCaseIds == {V(PyInt(10)), V(PyInt(11)), None}

\* The platform numbers a new run; 'by' records who posted it.
NewRun(runSeq, parent, test_case, by) ==
    [id |-> 900 + Len(runSeq) + 1, parent |-> parent, test_case |-> test_case, by |-> by]

\* tc = r.get('test_case') or {}; tc.get('id')
TestCaseIdOf(r) == IF r.test_case = None THEN None ELSE r.test_case.v

\* A lookup that compares the IDs as they are, without str().
FindTestRunIdByTestCaseTyped(runSeq, parent, test_case_id, listOk) ==
    LET listed == {i \in DOMAIN runSeq : runSeq[i].parent = parent}
        hits == {i \in listed : TestCaseIdOf(runSeq[i]) = test_case_id}
    IN  IF ~listOk THEN Raise("TransportError", "GET test-runs")
        ELSE IF hits = {} THEN Return(None)
        ELSE Return(V(runSeq[MinOf(hits)].id))

\* find_test_run_id_by_test_case: GET test-runs answers the runs under the
\* parent; the first whose str(test_case.id) equals str(test_case_id).
FindTestRunIdByTestCase(runSeq, parent, test_case_id, listOk) ==
    LET listed == {i \in DOMAIN runSeq : runSeq[i].parent = parent}
        hits == {i \in listed : StrOf(TestCaseIdOf(runSeq[i])) = StrOf(test_case_id)}
    IN  IF ~listOk THEN Raise("TransportError", "GET test-runs")
        ELSE IF hits = {} THEN Return(None)
        ELSE Return(V(runSeq[MinOf(hits)].id))

RunResult(outcome, runSeq, creates, failed) ==
    [outcome |-> outcome, runs |-> runSeq, creates |-> creates, failed |-> failed]

\* A creation that posts the run without its test case.
CreateTestRunForCaseUnbound(runSeq, parent, test_case_id, fail) ==
    LET created == NewRun(runSeq, parent, None, "manager")
    IN  IF fail = "case"
        THEN RunResult(Raise("TransportError", "GET test-cases"), runSeq, 0, "case")
        ELSE IF fail = "post"
        THEN RunResult(Raise("TransportError", "POST test-runs"), runSeq, 1, "post")
        ELSE RunResult(Return(created), Append(runSeq, created), 1, "none")

\* create_test_run_for_case: GET the test case, then POST test-runs with
\* test_case {id: test_case_id} under the parent.
CreateTestRunForCase(runSeq, parent, test_case_id, fail) ==
    LET created == NewRun(runSeq, parent, V(test_case_id), "manager")
    IN  IF fail = "case"
        THEN RunResult(Raise("TransportError", "GET test-cases"), runSeq, 0, "case")
        ELSE IF fail = "post"
        THEN RunResult(Raise("TransportError", "POST test-runs"), runSeq, 1, "post")
        ELSE RunResult(Return(created), Append(runSeq, created), 1, "none")

\* An ensure that creates whenever nothing was found, whatever create_if_missing.
EnsureTestRunForCaseAlwaysCreating(runSeq, parent, test_case_id, create_if_missing, fail) ==
    LET found == FindTestRunIdByTestCase(runSeq, parent, test_case_id, fail # "list")
        c == CreateTestRunForCase(runSeq, parent, test_case_id, fail)
    IN  IF found.kind = "raise" THEN RunResult(found, runSeq, 0, "list")
        ELSE IF TruthyInt(found.value) THEN RunResult(Return(found.value.v), runSeq, 0, "none")
        ELSE IF c.outcome.kind = "raise" THEN c
        ELSE RunResult(Return(c.outcome.value.id), c.runs, c.creates, "none")

\* ensure_test_run_for_case (lines 423-439)
EnsureTestRunForCase(runSeq, parent, test_case_id, create_if_missing, fail) ==
    LET found == FindTestRunIdByTestCase(runSeq, parent, test_case_id, fail # "list")
        c == CreateTestRunForCase(runSeq, parent, test_case_id, fail)
    IN  IF found.kind = "raise" THEN RunResult(found, runSeq, 0, "list")
        ELSE IF TruthyInt(found.value) THEN RunResult(Return(found.value.v), runSeq, 0, "none")
        ELSE IF ~create_if_missing
        THEN RunResult(Raise("ValueError", "No test run found"), runSeq, 0, "none")
        ELSE IF c.outcome.kind = "raise" THEN c
        ELSE RunResult(Return(c.outcome.value.id), c.runs, c.creates, "none")

\* The number an ID argument stands for.
CaseNumber(x) ==
    IF x.tag = "int" THEN x.v
    ELSE CHOOSE n \in 0..99 : StrOf(PyInt(n)) = x.v

\* The IDs of the runs under the parent that are bound to the test case.
RunsBoundTo(runSeq, parent, test_case_id) ==
    {runSeq[i].id : i \in {j \in DOMAIN runSeq :
        /\ runSeq[j].parent = parent
        /\ runSeq[j].test_case # None
        /\ CaseNumber(runSeq[j].test_case.v) = CaseNumber(test_case_id)}}

RunFailures == {"none", "list", "case", "post"}

\* What is kept of the call before the last: its key, what it returned and
\* whether it created a run.
SummaryOf(call) ==
    IF call.op = "none" THEN call
    ELSE [op |-> call.op, parent |-> call.parent, test_case_id |-> call.test_case_id,
          outcome |-> call.outcome, creates |-> call.creates]

EnsureTestRunForCaseCall ==
    /\ \E parent \in CallParents, cid \in RunCaseIds, cim \in BOOLEAN, fail \in RunFailures :
        LET r == EnsureTestRunForCase(runs, parent, cid, cim, fail)
        IN  /\ Len(r.runs) <= MaxRuns
            /\ runs' = r.runs
            /\ lastRunCall' =
                    [op |-> "ensure_test_run_for_case",
                     parent |-> parent, test_case_id |-> cid, create_if_missing |-> cim,
                     outcome |-> r.outcome, creates |-> r.creates, failed |-> r.failed,
                     existing |-> RunsBoundTo(runs, parent, cid),
                     before |-> SummaryOf(lastRunCall)]
    /\ UNCHANGED <<reportVars, threads, cycleVars, callers, caseVars, lastCreateRun, collection, facadeVars>>

\* Another party creates a run on the platform.
ExternalCreateRun ==
    /\ Len(runs) < MaxRuns
    /\ \E parent \in RunParents, tc \in OtherCaseIds :
        runs' = Append(runs, NewRun(runs, parent, tc, "other"))
    /\ UNCHANGED <<reportVars, threads, cycleVars, callers, lastRunCall, caseVars, lastCreateRun, collection, facadeVars>>

NextRun ==
    \/ EnsureTestRunForCaseCall
    \/ ExternalCreateRun

InitRun == Init /\ platStatuses = StatusListOne

SpecRun == InitRun /\ [][NextRun]_vars

(***************************************************************************)
(* Test cases: QTestAPI.list_test_cases, QTestAPI.find_test_case_id_by_name *)
(* and QTestManager.get_test_case_id_by_name                               *)
(***************************************************************************)
TestCase(id, name, pid) ==
    [id |-> V(id), name |-> name, pid |-> pid, test_case_version_id |-> V(id + 100)]

\* The projects: three cases, so that the listing takes more than one page;
\* two names that differ in case and whitespace only, one name that another
\* name is a prefix of.
CasesSorted ==
    <<TestCase(1, <<"a", "b">>, <<"T", "1">>),
      TestCase(2, <<" ", "A", "b">>, <<"T", "2">>),
      TestCase(3, <<"a", "b", "c">>, <<"T", "3">>)>>
CasesReversed ==
    <<TestCase(3, <<"a", "b", "c">>, <<"T", "3">>),
      TestCase(2, <<" ", "A", "b">>, <<"T", "2">>),
      TestCase(1, <<"a", "b">>, <<"T", "1">>)>>
CasesLate ==
    <<TestCase(4, <<"c">>, <<"T", "4">>),
      TestCase(5, <<"b">>, <<"T", "5">>),
      TestCase(3, <<"a", "b", "c">>, <<"T", "3">>)>>
CaseLists == {CasesSorted, CasesReversed, CasesLate}

\* The case_name argument of a caller.
CaseTargets ==
    {<<"a", "b">>, <<"A", "B", " ">>, <<" ", "A", "b">>, <<"a", "b", "c">>,
     <<"a">>, <<"t", "3">>, <<"b", "c">>}

\* What GET test-cases answers for a page: the platform cuts the listing
\* into pages of the requested size.
PageOf(caseSeq, page) ==
    SubSeq(caseSeq, (page - 1) * PageSize + 1,
           IF page * PageSize < Len(caseSeq) THEN page * PageSize ELSE Len(caseSeq))

\* list_test_cases from the given page on: request number failAt fails.
RECURSIVE ListFrom(_, _, _, _)
ListFrom(caseSeq, page, all_cases, failAt) ==
    IF page = failAt
    THEN [outcome |-> Raise("TransportError", "GET test-cases"), requests |-> page]
    ELSE IF PageOf(caseSeq, page) = <<>>
    THEN [outcome |-> Return(all_cases), requests |-> page]
    ELSE ListFrom(caseSeq, page + 1, all_cases \o PageOf(caseSeq, page), failAt)

ListTestCases(caseSeq, failAt) == ListFrom(caseSeq, 1, <<>>, failAt)

\* case_name == target or (case_pid and case_pid == target)
CaseMatches(c, name) ==
    LET target == Lower(Strip(name))
        case_name == Lower(Strip(c.name))
        case_pid == Lower(Strip(c.pid))
    IN  case_name = target \/ (case_pid # <<>> /\ case_pid = target)

\* c.get('id') or c.get('test_case_version_id')
IdOrVersionId(c) ==
    IF TruthyInt(c.id) THEN c.id
    ELSE IF c.test_case_version_id = Absent THEN None
    ELSE c.test_case_version_id

\* find_test_case_id_by_name: any exception, the failed listing request
\* included, is logged and answered with None.
FindTestCaseIdByName(caseSeq, name, failAt) ==
    LET listed == ListTestCases(caseSeq, failAt)
        all == listed.outcome.value
        hits == {i \in DOMAIN all : CaseMatches(all[i], name)}
    IN  IF listed.outcome.kind = "raise"
        THEN [outcome |-> Return(None), failed |-> TRUE, requests |-> listed.requests]
        ELSE [outcome |-> Return(IF hits = {} THEN None ELSE IdOrVersionId(all[MinOf(hits)])),
              failed |-> FALSE, requests |-> listed.requests]

\* The requests a listing of the project takes; 0 stands for no failure.
FailurePoints == 0..((Len(cases) \div PageSize) + 1)

LookupSummary(call) ==
    IF call.op = "none" THEN call
    ELSE [op |-> call.op, name |-> call.name, outcome |-> call.outcome,
          failed |-> call.failed]

\* get_test_case_id_by_name (lines 320-326)
GetTestCaseIdByNameCall ==
    /\ cases # <<>>
    /\ \E name \in CaseTargets, failAt \in FailurePoints :
        LET r == FindTestCaseIdByName(cases, name, failAt)
        IN  lastLookup' =
                [op |-> "get_test_case_id_by_name", name |-> name,
                 outcome |-> r.outcome, failed |-> r.failed, requests |-> r.requests,
                 before |-> LookupSummary(lastLookup)]
    /\ UNCHANGED <<reportVars, threads, cycleVars, callers, runVars, cases, lastCreateRun, collection, facadeVars>>

\* The project's cases change.
PlatformChangeCases ==
    /\ \E l \in CaseLists \ {cases} : cases' = l
    /\ lastLookup' = NoLookup
    /\ UNCHANGED <<reportVars, threads, cycleVars, callers, runVars, lastCreateRun, collection, facadeVars>>

NextCase ==
    \/ GetTestCaseIdByNameCall
    \/ PlatformChangeCases

SpecCase == InitRun /\ [][NextCase]_vars

(***************************************************************************)
(* QTestManager.create_test_run and QTestAPI.create_test_run               *)
(***************************************************************************)
\* int(x) of an int and of a str of digits
IntOf(x) ==
    IF x.tag = "int" THEN x.v
    ELSE CHOOSE n \in 0..99 : StrOf(PyInt(n)) = x.v

\* test_run_data.get('properties', []) with one more property
WithProperty(data, property) ==
    [data EXCEPT !.properties =
        V((IF data.properties = Absent THEN <<>> ELSE data.properties.v) \o <<property>>)]

BuildVersionProperty ==
    [field_id |-> "12625659", field_name |-> "Build Version",
     field_value |-> "[3643503]", field_value_name |-> "[New Value]"]

\* test_run_data (lines 108-141)
TestRunData(args) ==
    LET d0 == [name |-> args.name, test_case |-> Absent, test_case_ids |-> Absent,
               description |-> Absent, properties |-> Absent]
        d1 == IF args.test_case_id # None
              THEN [d0 EXCEPT !.test_case =
                      V([id |-> IntOf(args.test_case_id),
                         test_case_version_id |->
                            IF args.test_case_version_id # None
                            THEN V(IntOf(args.test_case_version_id)) ELSE None])]
              ELSE d0
        d2 == IF args.test_case_ids # None
              THEN [d1 EXCEPT !.test_case_ids =
                      V([i \in DOMAIN args.test_case_ids.v |-> IntOf(args.test_case_ids.v[i])])]
              ELSE d1
        d3 == IF TruthyStr(args.description)
              THEN [d2 EXCEPT !.description = args.description] ELSE d2
        d4 == IF TruthyStr(args.planned_start_date)
              THEN WithProperty(d3, [field_id |-> "PlannedStartDate",
                                     field_value |-> args.planned_start_date.v])
              ELSE d3
        d5 == IF TruthyStr(args.planned_end_date)
              THEN WithProperty(d4, [field_id |-> "PlannedEndDate",
                                     field_value |-> args.planned_end_date.v])
              ELSE d4
    IN  IF args.build_version = None THEN WithProperty(d5, BuildVersionProperty) ELSE d5

\* QTestAPI.create_test_run: params only when parent_id and parent_type are truthy
RunParams(parent_id, parent_type) ==
    IF TruthyInt(parent_id) /\ TruthyStr(parent_type)
    THEN V([parentId |-> parent_id.v, parentType |-> parent_type.v])
    ELSE None

CreateRunResult(outcome, cycleSeq, creates, posts, data, params) ==
    [outcome |-> outcome, cycles |-> cycleSeq, creates |-> creates, posts |-> posts,
     data |-> data, params |-> params]

\* create_test_run (lines 81-149): the parent, the payload, the POST.
CreateTestRun(cycleSeq, args, listOk, createOk, postOk) ==
    LET byName == ~TruthyInt(args.test_cycle_id) /\ TruthySeq(args.test_cycle_name)
        g == GetOrCreateTestCycleIdByName(cycleSeq, args.test_cycle_name.v, listOk, createOk)
        parent_id == IF TruthyInt(args.test_cycle_id) THEN args.test_cycle_id
                     ELSE IF byName THEN V(g.outcome.value)
                     ELSE None
        parent_type == IF TruthyInt(args.test_cycle_id) \/ byName
                       THEN V("test-cycle") ELSE None
        cyclesAfter == IF byName THEN g.cycles ELSE cycleSeq
        creates == IF byName THEN g.creates ELSE 0
        data == TestRunData(args)
    IN  IF byName /\ g.outcome.kind = "raise"
        THEN CreateRunResult(g.outcome, cyclesAfter, creates, 0, None, None)
        ELSE IF ~postOk
        THEN CreateRunResult(Raise("TransportError", "POST test-runs"), cyclesAfter,
                             creates, 1, V(data), RunParams(parent_id, parent_type))
        ELSE CreateRunResult(Return([id |-> 100, name |-> args.name]), cyclesAfter,
                             creates, 1, V(data), RunParams(parent_id, parent_type))

\* The arguments of the create_test_run calls.
CreateRunArgs ==
    [name : {"Test Run 1"},
     test_case_ids : {None, V(<<>>), V(<<PyInt(1), PyStr(<<"2">>)>>)},
     test_case_id : {None, PyInt(10), PyStr(<<"1", "0">>)},
     test_case_version_id : {None, PyInt(7)},
     description : {None, V("smoke")},
     planned_start_date : {None, V("2026-01-01")},
     planned_end_date : {None, V("2026-01-31")},
     build_version : {None, V("1.0")},
     test_cycle_id : {None, V(50)},
     test_cycle_name : {None, V(<<"a", "b">>)}]

\* The outcomes of the cycle requests matter only when the cycle is named.
CycleRequestOutcomes(args) ==
    IF ~TruthyInt(args.test_cycle_id) /\ TruthySeq(args.test_cycle_name)
    THEN BOOLEAN ELSE {TRUE}

\* One create_test_run call, on the cycles other parties have created.
CreateTestRunCall ==
    \E args \in CreateRunArgs, postOk \in BOOLEAN :
      \E listOk \in CycleRequestOutcomes(args), createOk \in CycleRequestOutcomes(args) :
        LET r == CreateTestRun(cycles, args, listOk, createOk, postOk)
        IN  /\ lastCreateRun = NoCall
            /\ Len(r.cycles) <= MaxCycleCalls
            /\ cycles' = r.cycles
            /\ nCreateCycle' = nCreateCycle + r.creates
            /\ lastCreateRun' =
                    [op |-> "create_test_run", args |-> args, outcome |-> r.outcome,
                     posts |-> r.posts, data |-> r.data, params |-> r.params]
            /\ UNCHANGED <<reportVars, threads, cycleCalls, callers, runVars, caseVars, collection, facadeVars>>

\* Another party has created a cycle before the call.
CycleCreatedBeforeCall ==
    /\ lastCreateRun = NoCall
    /\ cycles = <<>>
    /\ ExternalCreateCycle

NextCreateRun ==
    \/ CreateTestRunCall
    \/ CycleCreatedBeforeCall

SpecCreateRun == InitRun /\ [][NextCreateRun]_vars

(***************************************************************************)
(* Step logs: QTestRobotLibrary.create_qtest_test_step_log and             *)
(* append_qtest_test_step_log, with the step lookup they make              *)
(* (QTestManager.get_test_step_id_by_order,                                *)
(* QTestAPI.find_test_step_id_by_order)                                    *)
(***************************************************************************)
NoKeys == [k \in {} |-> None]

\* s.get(key)
GetKey(s, key) == IF key \in DOMAIN s THEN V(s[key]) ELSE None

\* s.get('order') or s.get('index') or s.get('sequence') or s.get('position')
OrderOfStep(s) ==
    IF TruthyInt(GetKey(s, "order")) THEN GetKey(s, "order")
    ELSE IF TruthyInt(GetKey(s, "index")) THEN GetKey(s, "index")
    ELSE IF TruthyInt(GetKey(s, "sequence")) THEN GetKey(s, "sequence")
    ELSE GetKey(s, "position")

\* find_test_step_id_by_order on the steps GET test-steps answers
FindTestStepIdByOrder(steps, step_number, stepsOk) ==
    LET hits == {i \in DOMAIN steps :
                    IsVal(OrderOfStep(steps[i])) /\ OrderOfStep(steps[i]).v = step_number}
    IN  IF ~stepsOk THEN Raise("TransportError", "GET test-steps")
        ELSE IF hits = {} THEN Return(None)
        ELSE Return(GetKey(steps[MinOf(hits)], "id"))

\* get_test_step_id_by_order: any exception is logged and answered with None
GetTestStepIdByOrder(steps, step_number, stepsOk) ==
    LET r == FindTestStepIdByOrder(steps, step_number, stepsOk)
    IN  IF r.kind = "raise" THEN None ELSE r.value

\* The steps of the platform's test case 10; other cases have none.
CaseSteps ==
    <<[id |-> 71, order |-> 1], [id |-> 72, order |-> 2], [id |-> 73, order |-> 3],
      [id |-> 74, order |-> 4]>>
StepsOfCase(id) == IF id = 10 THEN CaseSteps ELSE <<>>

\* int(str(x).strip()): the number, or None where int() raises
IsDigit(c) == \E d \in 0..9 : Digit(d) = c
DigitValue(c) == CHOOSE d \in 0..9 : Digit(d) = c

RECURSIVE DigitsValue(_)
DigitsValue(chars) ==
    IF chars = <<>> THEN 0
    ELSE 10 * DigitsValue(SubSeq(chars, 1, Len(chars) - 1)) + DigitValue(chars[Len(chars)])

ParseInt(x) ==
    LET chars == Strip(StrOf(x))
    IN  IF chars # <<>> /\ \A i \in DOMAIN chars : IsDigit(chars[i])
        THEN V(DigitsValue(chars))
        ELSE None

\* statusname_ids.get(status_name, 0)
StepStatusId(status_name) ==
    CASE status_name = <<"P", "A", "S", "S", "E", "D">> -> 601
      [] status_name = <<"F", "A", "I", "L", "E", "D">> -> 602
      [] status_name = <<"S", "K", "I", "P", "P", "E", "D">> -> 603
      [] status_name = <<"B", "L", "O", "C", "K", "E", "D">> -> 604
      [] OTHER -> 0

\* Python's truth value of the testcaseid argument
TruthyId(x) ==
    /\ x # None
    /\ x.tag = "int" => x.v # 0
    /\ x.tag = "str" => x.v # <<>>

\* create_qtest_test_step_log (lines 499-556): the payload, and the requests made
CreateQTestTestStepLog(a, hasManager, stepsOk) ==
    LET order == ParseInt(a.step_number)
        status_name == Upper(Strip(a.result))
        base == [status |-> [id |-> StepStatusId(status_name), name |-> status_name],
                 actual_result |-> a.actual_result]
        withExpected == IF a.expected_result # None
                        THEN [expected_result |-> a.expected_result.v] ELSE NoKeys
        withDescription == IF a.description # None
                           THEN [description |-> a.description.v] ELSE NoKeys
        resolves == hasManager /\ TruthyId(a.testcaseid) /\ ParseInt(a.testcaseid) # None
        step_id == IF resolves
                   THEN GetTestStepIdByOrder(StepsOfCase(ParseInt(a.testcaseid).v),
                                             order.v, stepsOk)
                   ELSE None
        withStepId == IF step_id # None THEN [test_step_id |-> step_id.v] ELSE NoKeys
    IN  IF order = None
        THEN [outcome |-> Raise("ValueError", "Invalid step number"), requests |-> 0]
        ELSE IF status_name = <<>>
        THEN [outcome |-> Raise("ValueError", "Result/status must be provided"),
              requests |-> 0]
        ELSE [outcome |-> Return(base @@ withExpected @@ withDescription @@ withStepId),
              requests |-> IF resolves THEN 1 ELSE 0]

\* An append that puts the new step first.
AppendQTestTestStepLogPrepending(container, a, hasManager, stepsOk) ==
    LET s == CreateQTestTestStepLog(a, hasManager, stepsOk)
        r == AppendToContainer(container, s.outcome.value)
        moved == <<s.outcome.value>> \o SubSeq(StepList(r.value), 1, Len(StepList(r.value)) - 1)
    IN  IF s.outcome.kind = "raise" THEN [outcome |-> s.outcome, requests |-> s.requests, step |-> None]
        ELSE IF r.kind = "raise" THEN [outcome |-> r, requests |-> s.requests, step |-> None]
        ELSE [outcome |-> Return(IF r.value.tag = "list" THEN ListOf(moved) ELSE DictOf(V(moved))),
              requests |-> s.requests, step |-> V(s.outcome.value)]

\* append_qtest_test_step_log (lines 558-589): the step is built first, then
\* put into the container.
AppendQTestTestStepLog(container, a, hasManager, stepsOk) ==
    LET s == CreateQTestTestStepLog(a, hasManager, stepsOk)
        r == AppendToContainer(container, s.outcome.value)
    IN  IF s.outcome.kind = "raise" THEN [outcome |-> s.outcome, requests |-> s.requests, step |-> None]
        ELSE [outcome |-> r, requests |-> s.requests,
              step |-> IF r.kind = "return" THEN V(s.outcome.value) ELSE None]

\* The containers a caller starts from.
StartContainers ==
    {None, EmptyStr, ListOf(<<>>), ListOne, DictOf(Absent), DictOf(V(<<>>)), DictOne,
     DictOf(NotAList), PyInt(42)}

\* The arguments of an append for one step order: the case given as int with
\* the texts left out, or no case and the texts given.
StepArgs(order) ==
    {[testcaseid |-> PyInt(10), step_number |-> PyInt(order),
      result |-> <<"p", "a", "s", "s", "e", "d">>, actual_result |-> "",
      expected_result |-> None, description |-> None],
     [testcaseid |-> None, step_number |-> PyStr(<<" ">> \o StrOf(PyInt(order))),
      result |-> <<" ", "F", "a", "i", "l", "e", "d">>, actual_result |-> "bad",
      expected_result |-> V("good"), description |-> V("note")]}

\* The step orders callers append.
StepOrders == {1, 2, 3}

\* Arguments whose step number int() rejects.
BadStepArgs ==
    {[testcaseid |-> PyInt(10), step_number |-> PyStr(<<"x">>),
      result |-> <<"p", "a", "s", "s", "e", "d">>, actual_result |-> "",
      expected_result |-> None, description |-> None]}

\* The input is malformed: the step number is no integer, or the container is
\* neither absent or empty, nor a list, nor a dict whose 'logs' is a list or
\* missing.
Malformed(container, a) ==
    \/ ParseInt(a.step_number) = None
    \/ container.tag \notin {"None", "str", "list", "dict"}
    \/ container.tag = "dict" /\ container.logs \notin {Absent, None}
                              /\ ~IsVal(container.logs)

StartCollection ==
    /\ collection = NotStarted
    /\ \E c \in StartContainers :
        collection' = [NotStarted EXCEPT !.start = c, !.container = c]
    /\ UNCHANGED <<reportVars, threads, cycleVars, callers, runVars, caseVars,
                   lastCreateRun, facadeVars>>

AppendQTestTestStepLogCall ==
    /\ collection # NotStarted
    /\ Len(collection.appended) < MaxAppends
    /\ \E order \in StepOrders, stepsOk \in BOOLEAN :
        \E a \in StepArgs(order) \cup BadStepArgs :
            LET r == AppendQTestTestStepLog(collection.container, a, TRUE, stepsOk)
            IN  collection' =
                    IF r.outcome.kind = "return"
                    THEN [collection EXCEPT
                            !.container = r.outcome.value,
                            !.appended = Append(@, [order |-> order, step |-> r.step.v]),
                            !.outcome = "return",
                            !.requests = r.requests,
                            !.exc = "",
                            !.malformed = Malformed(collection.container, a)]
                    ELSE [collection EXCEPT
                            !.outcome = "raise",
                            !.requests = r.requests,
                            !.exc = r.outcome.exc,
                            !.malformed = Malformed(collection.container, a)]
    /\ UNCHANGED <<reportVars, threads, cycleVars, callers, runVars, caseVars,
                   lastCreateRun, facadeVars>>

NextStepLog ==
    \/ StartCollection
    \/ AppendQTestTestStepLogCall

SpecStepLog == InitRun /\ [][NextStepLog]_vars

(***************************************************************************)
(* QTestRobotLibrary.approve_qtest_test_case                               *)
(***************************************************************************)
\* d.get(key) of a dict whose keys may be absent or hold null
DictGet(d, key) == IF d[key] = Absent THEN None ELSE d[key]

\* What GET test-cases/{id} may answer: the version fields present, null or
\* left out.
VersionObjects == {[id |-> i] : i \in {Absent, None, V(77)}}
CaseDetails ==
    {[test_case_version_id |-> t, version |-> v] :
        t \in {Absent, None, V(55)},
        v \in {Absent, None} \cup {V(o) : o \in VersionObjects}}

\* The test_case argument: an ID, an ID in a string, a name.
ApproveTargets ==
    {PyInt(10), PyStr(<<" ", "1", "1">>), PyStr(<<"a", "b">>), PyStr(<<"z">>)}

\* (details.get('version') or {}).get('id')  (line 487)
NestedVersionId(details) ==
    LET version == DictGet(details, "version")
    IN  IF IsVal(version) THEN DictGet(version.v, "id") ELSE None

\* The fallback chain read the other way round: version.id before
\* test_case_version_id.
VersionIdOfNestedFirst(details) ==
    IF TruthyInt(NestedVersionId(details)) THEN NestedVersionId(details)
    ELSE DictGet(details, "test_case_version_id")

\* details.get('test_case_version_id') or (details.get('version') or {}).get('id')
\* (lines 485-488)
VersionIdOf(details) ==
    IF TruthyInt(DictGet(details, "test_case_version_id"))
    THEN DictGet(details, "test_case_version_id")
    ELSE NestedVersionId(details)

\* approve_qtest_test_case (lines 463-497) on a library with a manager: the
\* outcome, and the approve and detail requests issued.
ApproveQTestTestCase(test_case, caseSeq, details, failAt, approveOk, detailOk) ==
    LET tc_id == IF ParseInt(test_case) # None THEN ParseInt(test_case)
                 ELSE FindTestCaseIdByName(caseSeq, StrOf(test_case), failAt).outcome.value
        version_id == VersionIdOf(details)
    IN  IF tc_id = None
        THEN [outcome |-> Raise("ValueError", "Test case not found"),
              approves |-> 0, gets |-> 0]
        ELSE IF ~approveOk
        THEN [outcome |-> Raise("TransportError", "PUT approve"),
              approves |-> 1, gets |-> 0]
        ELSE IF ~detailOk
        THEN [outcome |-> Return(tc_id.v), approves |-> 1, gets |-> 1]
        ELSE [outcome |-> Return(IF version_id = None THEN tc_id.v ELSE version_id.v),
              approves |-> 1, gets |-> 1]

ApproveQTestTestCaseCall ==
    /\ lastApprove = NoCall
    /\ \E test_case \in ApproveTargets, caseSeq \in CaseLists, details \in CaseDetails,
          failAt \in {0, 1}, approveOk \in BOOLEAN, detailOk \in BOOLEAN :
        LET r == ApproveQTestTestCase(test_case, caseSeq, details, failAt,
                                      approveOk, detailOk)
        IN  lastApprove' =
                [op |-> "approve_qtest_test_case", test_case |-> test_case,
                 details |-> details, approveOk |-> approveOk, detailOk |-> detailOk,
                 outcome |-> r.outcome, approves |-> r.approves, gets |-> r.gets]
    /\ UNCHANGED <<reportVars, threads, cycleVars, callers, runVars, caseVars,
                   lastCreateRun, collection, lastStepLookup, listing, lastByName,
                   issued>>

NextApprove ==
    \/ ApproveQTestTestCaseCall

SpecApprove == InitRun /\ [][NextApprove]_vars

(***************************************************************************)
(* QTestAPI.find_test_step_id_by_order on steps that number from 0 or      *)
(* carry their number under 'index'                                        *)
(***************************************************************************)
\* A step as GET test-steps may answer it: 'order' and 'index' present or not.
StepNumbers == 0..2
StepWith(id, order, index) ==
    [id |-> id]
    @@ (IF order = Absent THEN NoKeys ELSE [order |-> order.v])
    @@ (IF index = Absent THEN NoKeys ELSE [index |-> index.v])
StepFields == {Absent} \cup {V(n) : n \in StepNumbers}
StepLists ==
    {<<StepWith(81, o, i)>> : o \in StepFields, i \in StepFields}
    \cup {<<StepWith(81, o1, i1), StepWith(82, o2, Absent)>> :
            o1 \in StepFields, i1 \in StepFields, o2 \in StepFields}

FindTestStepIdByOrderCall ==
    /\ lastStepLookup = NoCall
    /\ \E steps \in StepLists, step_number \in StepNumbers, stepsOk \in BOOLEAN :
        lastStepLookup' =
            [op |-> "find_test_step_id_by_order", steps |-> steps,
             step_number |-> step_number, stepsOk |-> stepsOk,
             outcome |-> FindTestStepIdByOrder(steps, step_number, stepsOk)]
    /\ UNCHANGED <<reportVars, threads, cycleVars, callers, runVars, caseVars,
                   lastCreateRun, collection, lastApprove, listing, lastByName, issued>>

NextStepLookup ==
    \/ FindTestStepIdByOrderCall

SpecStepLookup == InitRun /\ [][NextStepLookup]_vars

(***************************************************************************)
(* QTestAPI.list_test_cases, one request at a time                         *)
(***************************************************************************)
MaxPages == 3

\* What GET test-cases may answer for a page: a list, an object with or
\* without 'items', or nothing.
PageList(items) == [tag |-> "list", items |-> items]
PageObject(items) == [tag |-> "dict", items |-> items]
PageItems == {<<>>, <<[id |-> 1]>>, <<[id |-> 2], [id |-> 3]>>}
PageAnswers ==
    {None} \cup {PageList(i) : i \in PageItems}
    \cup {PageObject(V(i)) : i \in PageItems} \cup {PageObject(Absent), PageObject(None)}

\* The items an answer carries.
ItemsOf(resp) ==
    CASE resp = None -> <<>>
      [] resp.tag = "list" -> resp.items
      [] resp.tag = "dict" -> IF IsVal(resp.items) THEN resp.items.v ELSE <<>>

\* The loop body with the breaks of lines 252-253, 255-256 and 261-262 left
\* out: an empty answer is followed by the next page.
ListTestCasesStepNoBreak(l, resp) ==
    [l EXCEPT !.all_cases = @ \o ItemsOf(resp), !.page = @ + 1,
              !.requested = Append(@, l.page), !.answers = Append(@, resp)]

\* One turn of the loop (lines 251-267): the request of the current page has
\* been answered with resp.
ListTestCasesStep(l, resp) ==
    LET asked == [l EXCEPT !.requested = Append(@, l.page),
                           !.answers = Append(@, resp)]
    IN  IF ItemsOf(resp) = <<>>
        THEN [asked EXCEPT !.pc = "returned"]
        ELSE [asked EXCEPT !.all_cases = @ \o ItemsOf(resp), !.page = @ + 1]

\* lines 248-249
ListTestCasesBegin ==
    /\ listing = NotListing
    /\ listing' = [pc |-> "loop", page |-> 1, all_cases |-> <<>>,
                   requested |-> <<>>, answers |-> <<>>]
    /\ UNCHANGED <<reportVars, threads, cycleVars, callers, runVars, caseVars,
                   lastCreateRun, collection, lastApprove, lastStepLookup, lastByName,
                   issued>>

\* line 251 and the turn of the loop it starts
ListTestCasesRequest ==
    /\ listing.pc = "loop"
    /\ listing.page <= MaxPages
    /\ \E resp \in PageAnswers : listing' = ListTestCasesStep(listing, resp)
    /\ UNCHANGED <<reportVars, threads, cycleVars, callers, runVars, caseVars,
                   lastCreateRun, collection, lastApprove, lastStepLookup, lastByName,
                   issued>>

\* line 251: the request fails, _make_request raises and the call ends
ListTestCasesRequestFails ==
    /\ listing.pc = "loop"
    /\ listing.page <= MaxPages
    /\ listing' = [listing EXCEPT !.pc = "raised", !.requested = Append(@, listing.page)]
    /\ UNCHANGED <<reportVars, threads, cycleVars, callers, runVars, caseVars,
                   lastCreateRun, collection, lastApprove, lastStepLookup, lastByName,
                   issued>>

NextList ==
    \/ ListTestCasesBegin
    \/ ListTestCasesRequest
    \/ ListTestCasesRequestFails

SpecList == InitRun /\ [][NextList]_vars

(***************************************************************************)
(* QTestManager.update_test_result_by_name, resolve_test_case_ids_by_names *)
(* and create_test_run_by_names                                            *)
(***************************************************************************)
\* update_test_result_by_name (lines 371-392): the name is resolved, then
\* update_test_result is called with the arguments of lines 384-392, steplogs
\* not among them; the version argument is not passed on.
UpdateTestResultByName(caseSeq, cache, plat, logSeq, a, failAt, fetchOk, postOk) ==
    LET cid == FindTestCaseIdByName(caseSeq, a.test_case_name, failAt).outcome.value
    IN  IF cid = None
        THEN CallResult(Raise("ValueError", "Test case not found by name"),
                        cache, logSeq, 0, 0, 0)
        ELSE UpdateTestResult(cache, plat, logSeq,
                [test_run_id |-> a.test_run_id, test_case_id |-> cid.v,
                 status |-> a.status, steplogs |-> Omitted,
                 test_case_version_id |-> None, note |-> a.note,
                 execution_time |-> None, defects |-> None,
                 exe_start_date |-> None, exe_end_date |-> None],
                fetchOk, postOk)

\* resolve_test_case_ids_by_names (lines 328-340): the names that resolve, in
\* the order given.
ResolveTestCaseIdsByNames(caseSeq, names, failAt) ==
    LET cidOf(name) == FindTestCaseIdByName(caseSeq, name, failAt).outcome.value
        found == SelectSeq(names, LAMBDA name : TruthyInt(cidOf(name)))
    IN  [i \in DOMAIN found |-> PyInt(cidOf(found[i]).v)]

\* The arguments create_test_run_by_names hands to create_test_run
\* (lines 361-369).
RunArgsByNames(a, case_ids) ==
    [name |-> a.name, test_case_ids |-> V(case_ids), test_case_id |-> None,
     test_case_version_id |-> None, description |-> None,
     planned_start_date |-> None, planned_end_date |-> None,
     build_version |-> None, test_cycle_id |-> None,
     test_cycle_name |-> a.test_cycle_name]

\* create_test_run_by_names (lines 342-369): the cycle is looked up for the
\* warning only (lines 353-357); create_test_run is given the cycle's name.
CreateTestRunByNames(cycleSeq, caseSeq, a, failAt, lookupOk, listOk, createOk, postOk) ==
    LET case_ids == ResolveTestCaseIdsByNames(caseSeq, a.test_case_names, failAt)
    IN  IF case_ids = <<>>
        THEN CreateRunResult(Raise("ValueError", "No test cases resolved"),
                             cycleSeq, 0, 0, None, None)
        ELSE CreateTestRun(cycleSeq, RunArgsByNames(a, case_ids), listOk, createOk, postOk)

\* The arguments of the callers, and the cycles other parties have created.
ByNameUpdateArgs ==
    [test_run_id : {100}, test_case_name : CaseTargets, status : StatusInputs,
     note : {None, V("note")}]
CaseNameLists ==
    {<<>>, <<<<"a", "b">>>>, <<<<"b", "c">>>>, <<<<"b", "c">>, <<"t", "3">>>>,
     <<<<"a", "b", "c">>, <<"a", "b">>>>}
ByNamesRunArgs ==
    [name : {"Test Run 1"}, test_case_names : CaseNameLists,
     test_cycle_name : {None, V(<<"a", "b">>), V(<<"c", "2">>)}]
CyclesBefore == {<<>>, <<NewCycle(<<>>, <<"a", "b">>)>>}

UpdateTestResultByNameCall ==
    /\ lastByName = NoCall
    /\ \E caseSeq \in CaseLists, a \in ByNameUpdateArgs, failAt \in 0..2,
          fetchOk \in BOOLEAN, postOk \in BOOLEAN :
        LET r == UpdateTestResultByName(caseSeq, execution_statuses, platStatuses,
                                        logs, a, failAt, fetchOk, postOk)
        IN  /\ cases' = caseSeq
            /\ execution_statuses' = r.cache
            /\ logs' = r.logs
            /\ nFetch' = nFetch + r.fetches
            /\ nAddLog' = nAddLog + r.posts
            /\ lastByName' =
                    [op |-> "update_test_result_by_name", args |-> a,
                     cid |-> FindTestCaseIdByName(caseSeq, a.test_case_name, 0).outcome.value,
                     lookupFailed |-> FindTestCaseIdByName(caseSeq, a.test_case_name, failAt).failed,
                     valid |-> Upper(a.status) \in DOMAIN BuildMapping(platStatuses),
                     outcome |-> r.outcome, posts |-> r.posts, failed |-> r.failed]
    /\ UNCHANGED <<platStatuses, nCalls, last, pc, bulk, threads, cycleVars, callers,
                   runVars, lastLookup, lastCreateRun, collection, lastApprove,
                   lastStepLookup, listing, issued>>

CreateTestRunByNamesCall ==
    /\ lastByName = NoCall
    /\ \E cycleSeq \in CyclesBefore, caseSeq \in CaseLists, a \in ByNamesRunArgs,
          failAt \in 0..2, lookupOk \in BOOLEAN, listOk \in BOOLEAN,
          createOk \in BOOLEAN, postOk \in BOOLEAN :
        LET r == CreateTestRunByNames(cycleSeq, caseSeq, a, failAt, lookupOk, listOk,
                                      createOk, postOk)
        IN  /\ cases' = caseSeq
            /\ cycles' = r.cycles
            /\ nCreateCycle' = nCreateCycle + r.creates
            /\ lastByName' =
                    [op |-> "create_test_run_by_names", args |-> a,
                     cyclesBefore |-> cycleSeq,
                     case_ids |-> ResolveTestCaseIdsByNames(caseSeq, a.test_case_names, failAt),
                     outcome |-> r.outcome, creates |-> r.creates, posts |-> r.posts,
                     params |-> r.params]
    /\ UNCHANGED <<reportVars, threads, cycleCalls, callers, runVars, lastLookup,
                   lastCreateRun, collection, lastApprove, lastStepLookup, listing,
                   issued>>

NextByName ==
    \/ UpdateTestResultByNameCall
    \/ CreateTestRunByNamesCall

SpecByName == InitRun /\ [][NextByName]_vars

(***************************************************************************)
(* The requests the manager's operations issue.  Every public operation of *)
(* QTestManager is one action; it adds to 'issued' the kinds of request it *)
(* sent through QTestAPI.  The platform's content at the time of a call is *)
(* any of the fixtures above: other parties change it between the calls.   *)
(***************************************************************************)
Request(method, endpoint) == [method |-> method, endpoint |-> endpoint]

\* The requests of QTestAPI's methods (qtest_api.py)
GetTestCaseRequest == Request("GET", "test-cases/{id}")
CreateTestRunRequest == Request("POST", "test-runs")
UpdateTestLogRequest == Request("PUT", "test-logs/{id}")
AddTestLogRequest == Request("POST", "test-runs/{id}/test-logs")
ApproveTestCaseRequest == Request("PUT", "test-cases/{id}/approve")
GetTestLogsRequest == Request("GET", "test-runs/{id}/test-logs")
GetTestStepsRequest == Request("GET", "test-cases/{id}/test-steps")
GetExecutionStatusesRequest == Request("GET", "test-runs/execution-statuses")
GetTestCyclesRequest == Request("GET", "test-cycles")
CreateTestCycleRequest == Request("POST", "test-cycles")
GetTestRunsRequest == Request("GET", "test-runs")
GetTestCasesRequest == Request("GET", "test-cases")

Times(n, request) == IF n > 0 THEN {request} ELSE {}

\* update_test_result: the registry read (line 177) and add_test_log (line 210)
RequestsOfUpdate(r) ==
    Times(r.fetches, GetExecutionStatusesRequest) \cup Times(r.posts, AddTestLogRequest)

\* get_or_create_test_cycle_id_by_name (lines 16-22)
RequestsOfGetOrCreate(r) ==
    {GetTestCyclesRequest} \cup Times(r.creates, CreateTestCycleRequest)

\* create_test_run (lines 103-107, 144)
RequestsOfCreateRun(args, r) ==
    (IF ~TruthyInt(args.test_cycle_id) /\ TruthySeq(args.test_cycle_name)
     THEN {GetTestCyclesRequest} ELSE {})
    \cup Times(r.creates, CreateTestCycleRequest)
    \cup Times(r.posts, CreateTestRunRequest)

\* bulk_update_test_results (lines 233-247): the requests of its items
RECURSIVE BulkRequests(_, _, _, _, _)
BulkRequests(cache, plat, items, fetchOk, postOk) ==
    IF items = <<>> THEN [cache |-> cache, requests |-> {}]
    ELSE LET r == BulkTry(cache, plat, <<>>, 100, Head(items), fetchOk, postOk)
             rest == BulkRequests(r.cache, plat, Tail(items), fetchOk, postOk)
         IN  [cache |-> rest.cache, requests |-> RequestsOfUpdate(r) \cup rest.requests]

\* The create_test_run calls of this part: the arguments that decide the
\* requests.
ManagerRunArgs ==
    {a \in CreateRunArgs :
        /\ a.test_case_version_id = None /\ a.description = None
        /\ a.planned_start_date = None /\ a.planned_end_date = None
        /\ a.build_version = None /\ a.test_case_id = None}

managerRest ==
    <<platStatuses, logs, nFetch, nAddLog, last, pc, bulk, threads, cycleVars,
      callers, runVars, caseVars, lastCreateRun, collection, lastApprove,
      lastStepLookup, listing, lastByName>>

\* One more operation begins, while the bound on the calls allows it.
ManagerCanCall == nCalls < MaxCalls

Issue(requests) == issued' = issued \cup requests /\ nCalls' = nCalls + 1

\* get_execution_statuses, get_available_statuses (lines 66-79, 307-310)
ManagerGetExecutionStatuses ==
    /\ ManagerCanCall
    /\ \E fetchOk \in BOOLEAN :
        LET g == GetExecutionStatuses(execution_statuses, platStatuses, fetchOk)
        IN  /\ execution_statuses' = g.cache
            /\ Issue(Times(g.fetches, GetExecutionStatusesRequest))
    /\ UNCHANGED managerRest

\* update_test_result (lines 151-215)
ManagerUpdateTestResult ==
    /\ ManagerCanCall
    /\ \E args \in UpdateArgs, fetchOk \in BOOLEAN, postOk \in BOOLEAN :
        LET r == UpdateTestResult(execution_statuses, platStatuses, <<>>, args,
                                  fetchOk, postOk)
        IN  /\ execution_statuses' = r.cache
            /\ Issue(RequestsOfUpdate(r))
    /\ UNCHANGED managerRest

\* bulk_update_test_results (lines 217-250)
ManagerBulkUpdateTestResults ==
    /\ ManagerCanCall
    /\ \E items \in SeqsUpTo(BulkItems, MaxItems), fetchOk \in BOOLEAN, postOk \in BOOLEAN :
        LET b == BulkRequests(execution_statuses, platStatuses, items, fetchOk, postOk)
        IN  /\ execution_statuses' = b.cache
            /\ Issue(b.requests)
    /\ UNCHANGED managerRest

\* get_test_run_results (lines 252-270)
ManagerGetTestRunResults ==
    /\ ManagerCanCall
    /\ Issue({GetTestLogsRequest})
    /\ UNCHANGED <<execution_statuses, managerRest>>

\* create_test_cycle (lines 272-305)
ManagerCreateTestCycle ==
    /\ ManagerCanCall
    /\ Issue({CreateTestCycleRequest})
    /\ UNCHANGED <<execution_statuses, managerRest>>

\* get_or_create_test_cycle_id_by_name (lines 14-24)
ManagerGetOrCreateTestCycle ==
    /\ ManagerCanCall
    /\ \E cycleSeq \in CyclesBefore, name \in CycleNames, listOk \in BOOLEAN,
          createOk \in BOOLEAN :
        Issue(RequestsOfGetOrCreate(
                GetOrCreateTestCycleIdByName(cycleSeq, name, listOk, createOk)))
    /\ UNCHANGED <<execution_statuses, managerRest>>

\* create_test_run (lines 81-149)
ManagerCreateTestRun ==
    /\ ManagerCanCall
    /\ \E cycleSeq \in CyclesBefore, args \in ManagerRunArgs, listOk \in BOOLEAN,
          createOk \in BOOLEAN, postOk \in BOOLEAN :
        Issue(RequestsOfCreateRun(args,
                CreateTestRun(cycleSeq, args, listOk, createOk, postOk)))
    /\ UNCHANGED <<execution_statuses, managerRest>>

\* get_test_cycle_id_by_name (lines 312-318)
ManagerGetTestCycleIdByName ==
    /\ ManagerCanCall
    /\ Issue({GetTestCyclesRequest})
    /\ UNCHANGED <<execution_statuses, managerRest>>

\* get_test_case_id_by_name, resolve_test_case_ids_by_names (lines 320-340)
ManagerGetTestCaseIdByName ==
    /\ ManagerCanCall
    /\ \E caseSeq \in {CasesSorted}, name \in CaseTargets, failAt \in 0..1 :
        Issue(Times(FindTestCaseIdByName(caseSeq, name, failAt).requests,
                    GetTestCasesRequest))
    /\ UNCHANGED <<execution_statuses, managerRest>>

\* create_test_run_by_names (lines 342-369)
ManagerCreateTestRunByNames ==
    /\ ManagerCanCall
    /\ \E cycleSeq \in CyclesBefore, caseSeq \in {CasesSorted},
          a \in {x \in ByNamesRunArgs : Len(x.test_case_names) <= 1},
          failAt \in 0..1, listOk \in BOOLEAN, createOk \in BOOLEAN, postOk \in BOOLEAN :
        LET r == CreateTestRunByNames(cycleSeq, caseSeq, a, failAt, TRUE, listOk,
                                      createOk, postOk)
            case_ids == ResolveTestCaseIdsByNames(caseSeq, a.test_case_names, failAt)
        IN  Issue((IF TruthySeq(a.test_cycle_name) THEN {GetTestCyclesRequest} ELSE {})
                  \cup (IF a.test_case_names # <<>> THEN {GetTestCasesRequest} ELSE {})
                  \cup (IF case_ids # <<>>
                        THEN RequestsOfCreateRun(RunArgsByNames(a, case_ids), r)
                        ELSE {}))
    /\ UNCHANGED <<execution_statuses, managerRest>>

\* update_test_result_by_name (lines 371-392)
ManagerUpdateTestResultByName ==
    /\ ManagerCanCall
    /\ \E caseSeq \in {CasesSorted}, a \in {x \in ByNameUpdateArgs : x.note = None},
          failAt \in 0..1,
          fetchOk \in BOOLEAN, postOk \in BOOLEAN :
        LET r == UpdateTestResultByName(caseSeq, execution_statuses, platStatuses,
                                        <<>>, a, failAt, fetchOk, postOk)
        IN  /\ execution_statuses' = r.cache
            /\ Issue({GetTestCasesRequest} \cup RequestsOfUpdate(r))
    /\ UNCHANGED managerRest

\* approve_test_case (lines 395-400)
ManagerApproveTestCase ==
    /\ ManagerCanCall
    /\ Issue({ApproveTestCaseRequest})
    /\ UNCHANGED <<execution_statuses, managerRest>>

\* approve_test_case_by_name (lines 402-409)
ManagerApproveTestCaseByName ==
    /\ ManagerCanCall
    /\ \E caseSeq \in {CasesSorted}, name \in CaseTargets, failAt \in 0..1 :
        LET found == FindTestCaseIdByName(caseSeq, name, failAt)
        IN  Issue(Times(found.requests, GetTestCasesRequest)
                  \cup (IF found.outcome.value # None
                        THEN {ApproveTestCaseRequest} ELSE {}))
    /\ UNCHANGED <<execution_statuses, managerRest>>

\* ensure_test_run_for_case (lines 412-439)
ManagerEnsureTestRunForCase ==
    /\ ManagerCanCall
    /\ \E runSeq \in {<<>>, <<NewRun(<<>>, CHOOSE p \in CallParents : TRUE,
                                     V(PyInt(10)), "other")>>},
          test_case_id \in RunCaseIds, create_if_missing \in BOOLEAN,
          fail \in RunFailures :
        LET r == EnsureTestRunForCase(runSeq, CHOOSE p \in CallParents : TRUE,
                                      test_case_id, create_if_missing, fail)
        IN  Issue({GetTestRunsRequest}
                  \cup (IF r.failed = "case" \/ r.creates = 1
                        THEN {GetTestCaseRequest} ELSE {})
                  \cup Times(r.creates, CreateTestRunRequest))
    /\ UNCHANGED <<execution_statuses, managerRest>>

\* get_test_step_id_by_order, get_test_step_id_by_name (lines 442-472)
ManagerGetTestStepId ==
    /\ ManagerCanCall
    /\ Issue({GetTestStepsRequest})
    /\ UNCHANGED <<execution_statuses, managerRest>>

NextManager ==
    \/ ManagerGetExecutionStatuses
    \/ ManagerUpdateTestResult
    \/ ManagerBulkUpdateTestResults
    \/ ManagerGetTestRunResults
    \/ ManagerCreateTestCycle
    \/ ManagerGetOrCreateTestCycle
    \/ ManagerCreateTestRun
    \/ ManagerGetTestCycleIdByName
    \/ ManagerGetTestCaseIdByName
    \/ ManagerCreateTestRunByNames
    \/ ManagerUpdateTestResultByName
    \/ ManagerApproveTestCase
    \/ ManagerApproveTestCaseByName
    \/ ManagerEnsureTestRunForCase
    \/ ManagerGetTestStepId

SpecManager == InitRun /\ [][NextManager]_vars

(***************************************************************************)
(* Properties of the reporting calls.                                      *)
(***************************************************************************)
BulkEnded == last.op = "bulk_update_test_results"
BulkReturned == BulkEnded /\ last.outcome.kind = "return"
UpdateEnded == last.op = "update_test_result"
HasError(entry) == "error" \in DOMAIN entry

\* The status of a call's arguments is a key of the registry the call reads.
StatusKnown(status) == Upper(status) \in DOMAIN last.registry

\* C1: bulk_update_test_results never aborts the batch: whatever fails for an
\* item (the transport, the status name, a missing 'test_case_id'), the call
\* returns a list and every item has been processed.
C1_BulkNeverAborts ==
    BulkEnded =>
        /\ last.outcome.kind = "return"
        /\ Len(last.outcome.value) = Len(last.args.items)

\* Entry is the outcome of item: the error record carrying the item's
\* test_case_id, or the test log the platform created for the item.
EntryIsOutcomeOf(entry, item, runId) ==
    IF HasError(entry)
    THEN IsVal(item.test_case_id) /\ entry.test_case_id = item.test_case_id.v
    ELSE /\ \E k \in DOMAIN logs : logs[k] = entry
         /\ entry.run = runId
         /\ IsVal(item.test_case_id)
         /\ entry.body.test_case_version_id = item.test_case_id.v

\* C2: the list bulk_update_test_results returns has one entry per input item,
\* and entry i is the outcome of item i (the created log, or the error record
\* with item i's test_case_id).
C2_BulkIndexAligned ==
    BulkReturned =>
        /\ Len(last.outcome.value) = Len(last.args.items)
        /\ \A i \in DOMAIN last.args.items :
              EntryIsOutcomeOf(last.outcome.value[i], last.args.items[i], last.args.run)

C2_Witness ==
    /\ BulkReturned
    /\ Len(last.args.items) = 2
    /\ last.args.items[1].test_case_id # last.args.items[2].test_case_id
    /\ HasError(last.outcome.value[2])

\* C3: in a bulk call without transport failure, every item whose status name
\* is in the registry yields a created test log (no 'error' key) at its index,
\* so the error entries are exactly the items with an invalid status name.
C3_ValidItemsYieldLogs ==
    (BulkReturned /\ last.failed = 0) =>
        \A i \in DOMAIN last.args.items :
            LET item == last.args.items[i]
            IN  (IsVal(item.test_case_id) /\ IsVal(item.status)
                 /\ StatusKnown(item.status.v))
                    => ~HasError(last.outcome.value[i])

\* C4: update_test_result with a status that is not a key of the registry
\* fails with the invalid-status error listing the valid names, and issues no
\* add-test-log request.
C4_InvalidStatusRejected ==
    (UpdateEnded /\ last.failed = 0 /\ ~StatusKnown(last.args.status)) =>
        /\ last.outcome.kind = "raise"
        /\ last.outcome.exc = "ValueError"
        /\ last.outcome.info.available = DOMAIN last.registry
        /\ last.posts = 0

\* C5: update_test_result with a status that matches a registry name
\* case-insensitively submits exactly one add-test-log request, with status
\* {id: the registry's ID, name: the uppercased name}, and returns the log the
\* platform created.
C5_ValidStatusSubmitsOneLog ==
    (UpdateEnded /\ last.failed = 0 /\ StatusKnown(last.args.status)) =>
        /\ last.posts = 1
        /\ last.outcome.kind = "return"
        /\ last.outcome.value = logs[Len(logs)]
        /\ last.outcome.value.body.status =
              [id |-> last.registry[Upper(last.args.status)],
               name |-> Upper(last.args.status)]

\* C6: update_test_result with a valid status and no step-log collection
\* calls add_test_log once and returns the created log.
C6_UpdateWithoutStepLogs ==
    (UpdateEnded /\ last.failed = 0 /\ StatusKnown(last.args.status)
     /\ last.args.steplogs = Omitted) =>
        /\ last.outcome.kind = "return"
        /\ last.posts = 1

\* The shapes append_qtest_test_step_log returns.
AppendedShape(c) == c.tag = "list" \/ (c.tag = "dict" /\ IsVal(c.logs))

\* C7: for a collection in either shape append_qtest_test_step_log returns,
\* the submitted test log's test_step_logs is the collection's step list.
C7_StepListSubmitted ==
    (UpdateEnded /\ last.failed = 0 /\ StatusKnown(last.args.status)
     /\ AppendedShape(last.args.steplogs)) =>
        /\ last.outcome.kind = "return"
        /\ last.outcome.value.body.test_step_logs = StepList(last.args.steplogs)

\* C8: once the status mapping is populated, no call fetches the execution
\* statuses again and the mapping never changes.
C8_StatusMappingFrozen ==
    [][~execution_statuses.isNone =>
          (execution_statuses' = execution_statuses /\ nFetch' = nFetch)]_vars

C8_Witness ==
    /\ UpdateEnded
    /\ last.outcome.kind = "return"
    /\ last.fetches = 0
    /\ nFetch = 1
    /\ ~execution_statuses.isNone
    /\ execution_statuses.map # BuildMapping(platStatuses)

(***************************************************************************)
(* Properties of the status registry under concurrent callers.             *)
(***************************************************************************)
AllThreadsDone == \A t \in ThreadIds : threads[t].pc = "done"

\* C9: when several callers run get_execution_statuses concurrently before the
\* mapping is populated, exactly one execution-statuses request is issued and
\* every caller receives the mapping built from it.
C9_SingleFlight ==
    AllThreadsDone =>
        /\ nFetch = 1
        /\ \A t, u \in ThreadIds : threads[t].ret = threads[u].ret

(***************************************************************************)
(* Properties of get-or-create of test cycles.                             *)
(***************************************************************************)
ReturnedGetOrCreate(c) == c.op = "get_or_create" /\ c.outcome.kind = "return"

\* C10: two calls of get_or_create_test_cycle_id_by_name in sequence with the
\* same name, no other party creating a cycle in between, return the same ID
\* and create at most one cycle in total.
C10_GetOrCreateTwiceSameId ==
    \A i \in 1..(Len(cycleCalls) - 1) :
        LET first == cycleCalls[i]
            second == cycleCalls[i + 1]
        IN  (ReturnedGetOrCreate(first) /\ ReturnedGetOrCreate(second)
             /\ first.name = second.name)
                => /\ first.outcome.value = second.outcome.value
                   /\ first.creates + second.creates <= 1

\* C11: one call of get_or_create_test_cycle_id_by_name issues at most one
\* create-cycle request; when a cycle matching the name exists the call returns
\* that cycle's ID and issues no create request; otherwise a call that returns
\* returns the ID the platform gave the cycle it created.
C11_GetOrCreateOneCycle ==
    \A i \in DOMAIN cycleCalls :
        LET c == cycleCalls[i]
        IN  c.op = "get_or_create" =>
                /\ c.creates <= 1
                /\ c.matching # {} =>
                        /\ c.creates = 0
                        /\ c.outcome.kind = "return"
                        /\ c.outcome.value \in c.matching
                /\ (c.matching = {} /\ c.outcome.kind = "return") =>
                        /\ c.creates = 1
                        /\ c.outcome.value \notin c.matching
                        /\ \E k \in DOMAIN cycles :
                              cycles[k].id = c.outcome.value /\ cycles[k].name = c.name

\* Callers t and u have both looked the same name up, successfully, and found
\* no cycle; both have then created one and returned.
BothLookedUpBeforeCreate(t, u) ==
    /\ t # u
    /\ callers[t].pc = "done" /\ callers[u].pc = "done"
    /\ callers[t].name = callers[u].name
    /\ callers[t].listOk /\ callers[u].listOk
    /\ callers[t].found = None /\ callers[u].found = None

CyclesNamed(name) == {k \in DOMAIN cycles : cycles[k].name = name}

\* C12: get_or_create_test_cycle_id_by_name is not atomic: two concurrent
\* callers of one name for which no cycle exists may both look up before
\* either creates, and then both create: the platform ends with two cycles of
\* that name and the callers hold different IDs.
C12_RaceMakesTwoCycles ==
    \A t, u \in ThreadIds :
        BothLookedUpBeforeCreate(t, u) =>
            /\ Cardinality(CyclesNamed(callers[t].name)) >= 2
            /\ callers[t].ret # callers[u].ret

C12_Witness ==
    /\ BothLookedUpBeforeCreate(1, 2)
    /\ Cardinality(CyclesNamed(callers[1].name)) = 2
    /\ nCreateCycle = 2

(***************************************************************************)
(* Properties of ensure_test_run_for_case.                                 *)
(***************************************************************************)
RunCallEnded == lastRunCall.op = "ensure_test_run_for_case"

\* C13: ensure_test_run_for_case, when a run bound to the test case exists
\* under the parent, issues no create-run request and, the listing having
\* succeeded, returns the ID of such a run.
C13_ExistingRunReturned ==
    (RunCallEnded /\ lastRunCall.existing # {}) =>
        /\ lastRunCall.creates = 0
        /\ lastRunCall.failed = "none" =>
                /\ lastRunCall.outcome.kind = "return"
                /\ lastRunCall.outcome.value \in lastRunCall.existing

C13_Witness ==
    /\ RunCallEnded
    /\ lastRunCall.existing # {}
    /\ lastRunCall.test_case_id.tag = "str"
    /\ lastRunCall.create_if_missing
    /\ lastRunCall.outcome.kind = "return"
    /\ Len(runs) = 2

\* The run the platform holds under the ID.
RunWithId(id) == runs[CHOOSE k \in DOMAIN runs : runs[k].id = id]

\* C14: ensure_test_run_for_case, when no run bound to the test case exists
\* under the parent: with create_if_missing false it fails with the not-found
\* error and creates no run; with create_if_missing true (and no request
\* failing) it issues exactly one create-run request and returns the ID of
\* the run created, which is bound to the test case under the parent.
C14_MissingRun ==
    (RunCallEnded /\ lastRunCall.existing = {}) =>
        /\ ~lastRunCall.create_if_missing =>
                /\ lastRunCall.creates = 0
                /\ lastRunCall.failed = "none" =>
                        /\ lastRunCall.outcome.kind = "raise"
                        /\ lastRunCall.outcome.exc = "ValueError"
        /\ (lastRunCall.create_if_missing /\ lastRunCall.failed = "none") =>
                /\ lastRunCall.creates = 1
                /\ lastRunCall.outcome.kind = "return"
                /\ \E k \in DOMAIN runs : runs[k].id = lastRunCall.outcome.value
                /\ RunWithId(lastRunCall.outcome.value).by = "manager"
                /\ lastRunCall.outcome.value \in
                      RunsBoundTo(runs, lastRunCall.parent, lastRunCall.test_case_id)

C14_Witness ==
    /\ RunCallEnded
    /\ lastRunCall.existing = {}
    /\ ~lastRunCall.create_if_missing
    /\ lastRunCall.outcome.kind = "raise"
    /\ lastRunCall.outcome.exc = "ValueError"
    /\ Len(runs) = 2
    /\ runs[1].parent = lastRunCall.parent /\ runs[1].test_case = None
    /\ runs[2].parent = lastRunCall.parent /\ runs[2].test_case = V(PyInt(11))

SameRunKey(a, b) ==
    /\ a.parent = b.parent
    /\ CaseNumber(a.test_case_id) = CaseNumber(b.test_case_id)

\* The runs this code created for the key of the call.
CreatedForKey(call) ==
    {k \in DOMAIN runs :
        /\ runs[k].by = "manager"
        /\ runs[k].id \in RunsBoundTo(runs, call.parent, call.test_case_id)}

\* The last call repeats the key of the call before it, which created the run.
SecondCallOfKey ==
    /\ RunCallEnded
    /\ lastRunCall.before.op # "none"
    /\ SameRunKey(lastRunCall, lastRunCall.before)
    /\ lastRunCall.before.creates = 1
    /\ lastRunCall.before.outcome.kind = "return"
    /\ lastRunCall.outcome.kind = "return"

\* C15: ensure_test_run_for_case is idempotent per key (parent, test case):
\* when a call created the run, the next call with the same key returns the
\* same run ID and creates no run, and at no time are there two runs of one
\* key created by this code.
C15_EnsureIdempotent ==
    /\ SecondCallOfKey =>
            /\ lastRunCall.outcome.value = lastRunCall.before.outcome.value
            /\ lastRunCall.creates = 0
    /\ RunCallEnded => Cardinality(CreatedForKey(lastRunCall)) <= 1

C15_Witness ==
    /\ SecondCallOfKey
    /\ lastRunCall.test_case_id # lastRunCall.before.test_case_id
    /\ lastRunCall.create_if_missing
    /\ Len(runs) = 2
    /\ runs[1].by = "other"

(***************************************************************************)
(* Properties of get_test_case_id_by_name.                                 *)
(***************************************************************************)
LookupEnded == lastLookup.op = "get_test_case_id_by_name"

\* a and b differ only in letter case and leading or trailing whitespace.
NameVariants(a, b) == Lower(Strip(a)) = Lower(Strip(b))

NamePresent(name) == \E i \in DOMAIN cases : cases[i].name = name

\* C16: for a case name n present in the project and a variant N of n that
\* differs in letter case or leading/trailing whitespace only,
\* get_test_case_id_by_name(N) returns what get_test_case_id_by_name(n)
\* returned, the project's cases being the same.
C16_VariantsResolveAlike ==
    (/\ LookupEnded
     /\ lastLookup.before.op # "none"
     /\ NamePresent(lastLookup.before.name)
     /\ NameVariants(lastLookup.name, lastLookup.before.name))
        => lastLookup.outcome = lastLookup.before.outcome

\* The positions, in listing order, of the cases whose trimmed lowercased
\* name or pid equals the trimmed lowercased target.
ExactMatches(name) ==
    {i \in DOMAIN cases :
        \/ Lower(Strip(cases[i].name)) = Lower(Strip(name))
        \/ Lower(Strip(cases[i].pid)) = Lower(Strip(name))}

\* C17: get_test_case_id_by_name returns the ID of the first case in listing
\* order, over all pages, whose trimmed lowercased name or pid equals the
\* trimmed lowercased target, and returns None, without raising, when no
\* case matches (a target that is a proper part of a name matches nothing).
C17_FirstExactMatch ==
    LookupEnded =>
        /\ lastLookup.outcome.kind = "return"
        /\ lastLookup.outcome.value =
              IF ExactMatches(lastLookup.name) = {} THEN None
              ELSE cases[MinOf(ExactMatches(lastLookup.name))].id

\* C18: when the listing request fails inside get_test_case_id_by_name, the
\* caller observes a failure, not the not-found result None.
C18_TransportFailureSurfaced ==
    (LookupEnded /\ lastLookup.failed) => lastLookup.outcome.kind = "raise"

(***************************************************************************)
(* Properties of create_test_run.                                          *)
(***************************************************************************)
CreateRunPosted == lastCreateRun.op = "create_test_run" /\ lastCreateRun.posts = 1

\* C19: the payload create_test_run posts carries exactly one of 'test_case'
\* and 'test_case_ids', whatever the test_case_id and test_case_ids arguments:
\* never both and never neither.
C19_ExactlyOneCaseAttachment ==
    CreateRunPosted =>
        (lastCreateRun.data.v.test_case # Absent)
            # (lastCreateRun.data.v.test_case_ids # Absent)

(***************************************************************************)
(* Properties of step-log collections.                                     *)
(***************************************************************************)
\* The steps the appends so far have built, in call order.
StepsAppended == [i \in DOMAIN collection.appended |-> collection.appended[i].step]

OrdersAppended == [i \in DOMAIN collection.appended |-> collection.appended[i].order]

\* C20: appends with step orders 1, 2, 3, each on the container the previous
\* one returned, yield a container whose step list holds, after what the
\* container started with, exactly the three steps built, in the order 1, 2,
\* 3, for a list and for a dict with 'logs' alike; in general the step list is
\* always the starting list followed by the steps appended, in call order, so
\* no append removes, reorders or changes an earlier entry.
C20_AppendsKeepOrder ==
    collection # NotStarted =>
        /\ StepList(collection.container) = StepList(collection.start) \o StepsAppended
        /\ collection.appended # <<>> => AppendedShape(collection.container)

C20_Witness ==
    /\ collection.start = DictOf(V(<<>>))
    /\ OrdersAppended = <<1, 2, 3>>
    /\ Len(StepList(collection.container)) = 3
    /\ \A i \in {1, 3} :
          /\ "test_step_id" \in DOMAIN StepList(collection.container)[i]
          /\ StepList(collection.container)[i].test_step_id = 70 + i
    /\ "test_step_id" \notin DOMAIN StepList(collection.container)[2]

\* C21: after any sequence of append_qtest_test_step_log calls on one
\* collection, each step order occurs at most once among its entries.
C21_StepOrdersUnique ==
    \A i, j \in DOMAIN collection.appended :
        i # j => collection.appended[i].order # collection.appended[j].order

\* C22: append_qtest_test_step_log called with malformed input fails with an
\* invalid-input error (ValueError), issues no network call during that call
\* and leaves the container as it was.
C22_MalformedInputFailsFast ==
    (collection # NotStarted /\ collection.malformed) =>
        /\ collection.outcome = "raise"
        /\ collection.exc = "ValueError"
        /\ collection.requests = 0
        /\ StepList(collection.container) = StepList(collection.start) \o StepsAppended

\* C23: approve_qtest_test_case, when the approve call succeeds, returns the
\* case detail's test_case_version_id if that field is present, else the
\* nested version.id if present, else the case ID itself; when the approve
\* call fails, the failure is raised and no version ID is returned.
ApproveRequested == lastApprove.op = "approve_qtest_test_case" /\ lastApprove.approves = 1
ApprovedCaseId ==
    IF ParseInt(lastApprove.test_case) # None THEN ParseInt(lastApprove.test_case).v
    ELSE lastApprove.outcome.value
FieldPresent(d, key) == IsVal(d[key])
C23_ApproveReturnsVersionId ==
    ApproveRequested =>
        LET d == lastApprove.details
        IN  IF ~lastApprove.approveOk
            THEN lastApprove.outcome.kind = "raise"
            ELSE /\ lastApprove.outcome.kind = "return"
                 /\ lastApprove.detailOk =>
                      lastApprove.outcome.value =
                        IF FieldPresent(d, "test_case_version_id")
                        THEN d.test_case_version_id.v
                        ELSE IF FieldPresent(d, "version") /\ FieldPresent(d.version.v, "id")
                        THEN d.version.v.id.v
                        ELSE ApprovedCaseId
                 /\ ~lastApprove.detailOk => lastApprove.outcome.value = ApprovedCaseId
C23_Witness ==
    /\ ApproveRequested
    /\ lastApprove.approveOk /\ lastApprove.detailOk
    /\ lastApprove.details.test_case_version_id = V(55)
    /\ lastApprove.details.version = V([id |-> V(77)])
    /\ lastApprove.outcome = Return(55)

\* C24: the test log submitted by update_test_result carries
\* test_case_version_id equal to the supplied version ID when one is given,
\* and equal to the test case ID when none is given.
LogSubmitted == UpdateEnded /\ last.posts = 1 /\ last.outcome.kind = "return"
C24_VersionIdOfLog ==
    LogSubmitted =>
        /\ last.outcome.value = logs[Len(logs)]
        /\ last.outcome.value.body.test_case_version_id =
                IF last.args.test_case_version_id = None
                THEN last.args.test_case_id
                ELSE last.args.test_case_version_id.v
C24_Witness ==
    /\ LogSubmitted
    /\ last.args.test_case_id = 11
    /\ last.args.test_case_version_id = V(77)
    /\ logs[Len(logs)].body.test_case_version_id = 77
C24_WitnessNoVersion ==
    /\ LogSubmitted
    /\ last.args.test_case_version_id = None
    /\ logs[Len(logs)].body.test_case_version_id = last.args.test_case_id

\* C25: no sequence of manager operations updates an existing test log in
\* place or deletes a test case, test cycle, test run or test log: the only
\* mutating requests the manager issues are create-cycle, create-run,
\* add-test-log and approve-case.
C25_OnlyCreatesAndApproval ==
    \A r \in issued :
        /\ r.method # "DELETE"
        /\ r.method # "GET" =>
            r \in {[method |-> "POST", endpoint |-> "test-cycles"],
                   [method |-> "POST", endpoint |-> "test-runs"],
                   [method |-> "POST", endpoint |-> "test-runs/{id}/test-logs"],
                   [method |-> "PUT", endpoint |-> "test-cases/{id}/approve"]}
C25_Witness ==
    {r \in issued : r.method # "GET"} =
        {[method |-> "POST", endpoint |-> "test-cycles"],
         [method |-> "POST", endpoint |-> "test-runs"],
         [method |-> "POST", endpoint |-> "test-runs/{id}/test-logs"],
         [method |-> "PUT", endpoint |-> "test-cases/{id}/approve"]}

\* C26: find_test_step_id_by_order compares, for each step, the first of the
\* fields order, index, sequence, position that is present on the step with
\* the requested order, and returns the ID of the first step for which they
\* are equal, or None when no step matches; a present field with value 0 is
\* used like any other value and is not skipped in favour of a lower-priority
\* field.
StepLookupEnded ==
    lastStepLookup.op = "find_test_step_id_by_order" /\ lastStepLookup.stepsOk
FirstPresentField(s) ==
    IF "order" \in DOMAIN s THEN V(s.order)
    ELSE IF "index" \in DOMAIN s THEN V(s.index)
    ELSE IF "sequence" \in DOMAIN s THEN V(s.sequence)
    ELSE IF "position" \in DOMAIN s THEN V(s.position)
    ELSE None
StepsMatching(steps, n) == {i \in DOMAIN steps : FirstPresentField(steps[i]) = V(n)}
C26_FirstPresentFieldDecides ==
    StepLookupEnded =>
        LET hits == StepsMatching(lastStepLookup.steps, lastStepLookup.step_number)
        IN  lastStepLookup.outcome =
                IF hits = {} THEN Return(None)
                ELSE Return(V(lastStepLookup.steps[MinOf(hits)].id))

\* C27: list_test_cases requests pages 1, 2, 3, ... in increasing order; as
\* soon as the platform answers a request with an empty page or an empty item
\* list the call has returned, with the concatenation in page order of the
\* pages answered, and no request follows the first empty answer.
RECURSIVE Concatenation(_)
Concatenation(answers) ==
    IF answers = <<>> THEN <<>>
    ELSE Concatenation(SubSeq(answers, 1, Len(answers) - 1))
            \o ItemsOf(answers[Len(answers)])
EmptyAnswers == {i \in DOMAIN listing.answers : ItemsOf(listing.answers[i]) = <<>>}
C27_ListingEndsAtFirstEmptyPage ==
    listing # NotListing =>
        /\ listing.requested = [i \in 1..Len(listing.requested) |-> i]
        /\ EmptyAnswers # {} =>
                /\ listing.pc = "returned"
                /\ EmptyAnswers = {Len(listing.requested)}
                /\ listing.all_cases = Concatenation(listing.answers)
        /\ listing.pc = "returned" => EmptyAnswers # {}
C27_Witness ==
    /\ listing # NotListing
    /\ listing.pc = "returned"
    /\ listing.requested = <<1, 2, 3>>
    /\ listing.all_cases = <<[id |-> 2], [id |-> 3], [id |-> 1]>>

\* C28: get_or_create_test_cycle_id_by_name issues a create-cycle request only
\* if, at the time of its lookup, the platform holds no cycle matching the
\* name; a failed lookup never leads to a second cycle of an existing name.
C28_CreateOnlyWhenNoCycleMatches ==
    \A i \in DOMAIN cycleCalls :
        (cycleCalls[i].op = "get_or_create" /\ cycleCalls[i].creates > 0)
            => cycleCalls[i].matching = {}

\* C29: update_test_result_by_name, when the test case name resolves to an ID
\* and the status is valid, submits exactly one test log for the resolved case
\* ID and returns it; when the name does not resolve it fails with a not-found
\* error and issues no add-test-log request.
UpdateByNameEnded == lastByName.op = "update_test_result_by_name"
C29_UpdateByNameSubmitsOneLog ==
    UpdateByNameEnded =>
        /\ (lastByName.cid # None /\ ~lastByName.lookupFailed /\ lastByName.valid
            /\ lastByName.failed = 0)
                => /\ lastByName.outcome.kind = "return"
                   /\ lastByName.posts = 1
                   /\ Len(logs) = 1
                   /\ lastByName.outcome.value = logs[1]
        /\ lastByName.cid = None
                => /\ lastByName.outcome.kind = "raise"
                   /\ lastByName.outcome.exc = "ValueError"
                   /\ lastByName.posts = 0

\* C30: create_test_run_by_names, given a cycle name that matches no existing
\* cycle, creates the test run without a parent and creates no test cycle;
\* when no test case name resolves it fails before issuing any create request.
CreateByNamesEnded == lastByName.op = "create_test_run_by_names"
CycleNameUnmatched ==
    /\ lastByName.args.test_cycle_name # None
    /\ MatchingCycleIds(lastByName.cyclesBefore, lastByName.args.test_cycle_name.v) = {}
C30_UnmatchedCycleNameMakesNoCycle ==
    CreateByNamesEnded =>
        /\ (CycleNameUnmatched /\ lastByName.case_ids # <<>>)
                => /\ lastByName.creates = 0
                   /\ cycles = lastByName.cyclesBefore
                   /\ lastByName.posts = 1 => lastByName.params = None
        /\ lastByName.case_ids = <<>>
                => /\ lastByName.outcome.kind = "raise"
                   /\ lastByName.creates = 0
                   /\ lastByName.posts = 0

=============================================================================
